---- MODULE Spec2Model ----
(***************************************************************************)
(* A model of the kiwis tabular library (src/src/DataFrame.js and its      *)
(* collaborators).  JavaScript objects are modelled as a heap: row         *)
(* objects, row arrays (_data), column-name arrays (_columns) and          *)
(* DataFrame objects all live in the heap and are referred to by index,    *)
(* so that two DataFrames sharing one array are visible as such.           *)
(***************************************************************************)
EXTENDS Integers, Sequences, FiniteSets, TLC

VARIABLES
    w,      \* the heap after the last call
    pre,    \* the heap before the last call
    hist,   \* the calls made so far, oldest first
    budget  \* the number of calls the program makes

vars == <<w, pre, hist, budget>>

(***************************************************************************)
(* Bounds of the model.                                                    *)
(***************************************************************************)
MaxRows == 2        \* rows of an input table of the session
MaxOtherRows == 1   \* rows of the second input table
MaxSteps == 2       \* calls of a session
MaxSortRows == 6    \* rows of a table handed to sort
MaxJoinRows == 2    \* rows of each table handed to join
MaxDupRows == 3     \* rows of a table handed to dropDuplicates
MaxAppendRows == 2  \* rows handed to one call of append
MaxColumnValues == 3 \* values handed to one call of addColumn
MaxPivotRows == 3    \* rows of a table handed to pivot
MaxSnapshotSteps == 3 \* calls made on a table and its PivotTable
MaxSeriesLen == 3    \* values of a Series
MaxSliceLen == 2     \* values of a Series handed to head and tail
MaxSliceN == 3       \* the argument of head and tail
MaxConstructRows == 2  \* records of an array a DataFrame is built from
MaxConstructSteps == 2 \* the construction and the writes to the array after it
MaxSeriesOpLen == 2    \* values of a Series that is built from and changed
MaxSeriesOpSteps == 2  \* calls made on the Series
MaxInsertLen == 2      \* rows of a table, values of a Series, handed to insert

(***************************************************************************)
(* JavaScript values.  Every value has the same shape so that any two      *)
(* values can be compared with =, which then is JavaScript's ===.          *)
(***************************************************************************)
\* A number is n / d, or its square root where s says so; the numbers a
\* table is built from are integers (d = 1).
Num(i) == [t |-> "num", n |-> i, d |-> 1, s |-> ""]
Str(x) == [t |-> "str", n |-> 0, d |-> 1, s |-> x]
Bool(b) == [t |-> "bool", n |-> IF b THEN 1 ELSE 0, d |-> 1, s |-> ""]
Null == [t |-> "null", n |-> 0, d |-> 1, s |-> ""]
Undef == [t |-> "undef", n |-> 0, d |-> 1, s |-> ""]

\* The strings of the model that JavaScript's unary + turns into a number.
NumericStrings == {"0", "1", "2"}
StringToNumber(x) == IF x = "0" THEN 0 ELSE IF x = "1" THEN 1 ELSE 2

\* The strings unary + turns into 0 for want of any digit: the empty string
\* and the strings of white space.
BlankStrings == {"", " "}

\* Boolean(value)
Truthy(v) ==
    CASE v.t = "num" -> v.n # 0
      [] v.t = "str" -> v.s # ""
      [] v.t = "bool" -> v.n = 1
      [] OTHER -> FALSE

\* !Number.isNaN(+value)
CoercesToNumber(v) ==
    CASE v.t = "num" -> TRUE
      [] v.t = "str" -> v.s \in BlankStrings \/ v.s \in NumericStrings
      [] v.t = "bool" -> TRUE
      [] v.t = "null" -> TRUE
      [] OTHER -> FALSE

\* +value, for a value that coerces
ToNumber(v) ==
    CASE v.t = "num" -> v.n
      [] v.t = "str" -> IF v.s \in BlankStrings THEN 0 ELSE StringToNumber(v.s)
      [] v.t = "bool" -> v.n
      [] OTHER -> 0

\* The order of the model's non-numeric strings under JavaScript's <.
StrRank(x) ==
    CASE x = "" -> 0
      [] x = " " -> 1
      [] x = "0" -> 2
      [] x = "1" -> 3
      [] x = "2" -> 4
      [] x = "p" -> 5
      [] x = "p|q" -> 6
      [] x = "q" -> 7
      [] x = "r" -> 8
      [] OTHER -> 9

\* x < y in JavaScript
JsLess(x, y) ==
    IF x.t = "str" /\ y.t = "str" THEN StrRank(x.s) < StrRank(y.s)
    ELSE IF CoercesToNumber(x) /\ CoercesToNumber(y) THEN ToNumber(x) < ToNumber(y)
    ELSE FALSE

(***************************************************************************)
(* Plain objects: a row is the sequence of its own properties in           *)
(* insertion order, each a key with a value.                               *)
(***************************************************************************)
Range(f) == {f[i] : i \in DOMAIN f}

Keys(row) == [i \in DOMAIN row |-> row[i].k]

HasKey(row, key) == \E i \in DOMAIN row : row[i].k = key

\* row[key]
Get(row, key) ==
    IF HasKey(row, key)
    THEN row[CHOOSE i \in DOMAIN row : row[i].k = key].v
    ELSE Undef

\* { ...row, [key]: value }
Put(row, key, value) ==
    IF HasKey(row, key)
    THEN [i \in DOMAIN row |-> IF row[i].k = key THEN [k |-> key, v |-> value] ELSE row[i]]
    ELSE Append(row, [k |-> key, v |-> value])

\* Object.values(row)
Values(row) == [i \in DOMAIN row |-> row[i].v]

\* arr.includes(x)
Includes(arr, x) == \E i \in DOMAIN arr : arr[i] = x

\* Array.from(new Set(arr)): the distinct elements in first-seen order
RECURSIVE Distinct(_)
Distinct(arr) ==
    IF arr = <<>> THEN <<>>
    ELSE LET front == Distinct(SubSeq(arr, 1, Len(arr) - 1))
             x == arr[Len(arr)]
         IN  IF Includes(front, x) THEN front ELSE Append(front, x)

RECURSIVE Flatten(_)
Flatten(arrs) ==
    IF arrs = <<>> THEN <<>>
    ELSE Flatten(SubSeq(arrs, 1, Len(arrs) - 1)) \o arrs[Len(arrs)]

\* JSON.parse(JSON.stringify(x)) of an array element: undefined becomes null
JsonElement(v) == IF v.t = "undef" THEN Null ELSE v

\* JSON.parse(JSON.stringify(row)): properties holding undefined are left out
JsonRow(row) == SelectSeq(row, LAMBDA p : p.v.t # "undef")

\* JSON.stringify(a) === JSON.stringify(b) for two arrays of values
SameJson(a, b) ==
    /\ Len(a) = Len(b)
    /\ \A i \in DOMAIN a : JsonElement(a[i]) = JsonElement(b[i])

(***************************************************************************)
(* The heap.  rows[r] is a row object, arrs[a] an array of row objects     *)
(* (a _data), cols[c] an array of column names (a _columns), dfs[d] a      *)
(* DataFrame: the arrays it refers to and its own column properties        *)
(* (props[c] is the content of the Series defined under the name c),       *)
(* pts[g] a PivotTable, vals[a] an array of values (the _data of a Series) *)
(* and srs[s] a Series: the array it refers to.                            *)
(***************************************************************************)
EmptyHeap ==
    [rows |-> <<>>, arrs |-> <<>>, cols |-> <<>>, dfs |-> <<>>, pts |-> <<>>,
     vals |-> <<>>, srs |-> <<>>]

\* A DataFrame object with no column property defined on it.
NoProps == [c \in {} |-> <<>>]

\* The result of a call: the heap it leaves, the object it returns
\* (0: none) and whether it threw.
Result(h, ret, err) == [h |-> h, ret |-> ret, err |-> err]

AllocRows(h, rowvals) == [h EXCEPT !.rows = @ \o rowvals]
FreshRowIds(h, n) == [i \in 1..n |-> Len(h.rows) + i]
AllocArr(h, ids) == [h EXCEPT !.arrs = Append(@, ids)]
AllocCols(h, names) == [h EXCEPT !.cols = Append(@, names)]
AllocDf(h, df) == [h EXCEPT !.dfs = Append(@, df)]

\* this._data as an array of row values (toArray())
toArray(h, d) == [i \in DOMAIN h.arrs[h.dfs[d].data] |-> h.rows[h.arrs[h.dfs[d].data][i]]]

\* this._columns (get columns)
columns(h, d) == h.cols[h.dfs[d].columns]

\* this.length
length(h, d) == Len(h.arrs[h.dfs[d].data])

\* new Series(data): a copy of the values through JSON
Series(vals) == [i \in DOMAIN vals |-> JsonElement(vals[i])]

\* _defineColumnProperties(): a Series per current column, built from the rows
defineColumnProperties(h, d) ==
    LET df == h.dfs[d]
        cs == Range(h.cols[df.columns])
        data == h.arrs[df.data]
        view(c) == Series([i \in DOMAIN data |-> Get(h.rows[data[i]], c)])
    IN  [h EXCEPT !.dfs[d].props =
            [c \in (DOMAIN df.props) \cup cs |-> IF c \in cs THEN view(c) ELSE df.props[c]]]

\* The constructor's pass over the entries of a row: a truthy value that is
\* no boolean and converts to a number is replaced by that number (a number
\* by itself).
CoerceValue(v) ==
    IF Truthy(v) /\ v.t = "str" /\ CoercesToNumber(v) THEN Num(ToNumber(v)) ELSE v

CoerceRow(row) == [i \in DOMAIN row |-> [k |-> row[i].k, v |-> CoerceValue(row[i].v)]]

\* new DataFrame(data) for an array of rows (given by value: the constructor
\* copies them through JSON)
constructorFromArray(h, rowvals) ==
    IF rowvals = <<>>
    THEN LET h1 == AllocArr(h, <<>>)
             h2 == AllocCols(h1, <<>>)
             h3 == AllocDf(h2, [data |-> Len(h1.arrs), columns |-> Len(h2.cols), props |-> NoProps])
         IN  Result(h3, Len(h3.dfs), FALSE)
    ELSE LET copies == [i \in DOMAIN rowvals |-> CoerceRow(JsonRow(rowvals[i]))]
             h1 == AllocArr(AllocRows(h, copies), FreshRowIds(h, Len(copies)))
             h2 == AllocCols(h1, Distinct(Flatten([i \in DOMAIN copies |-> Keys(copies[i])])))
             h3 == AllocDf(h2, [data |-> Len(h1.arrs), columns |-> Len(h2.cols), props |-> NoProps])
         IN  Result(defineColumnProperties(h3, Len(h3.dfs)), Len(h3.dfs), FALSE)

\* new DataFrame(data) for a DataFrame: the new object refers to the very
\* arrays of the given one, unless that one has no row
constructorFromDataFrame(h, d) ==
    IF length(h, d) = 0
    THEN constructorFromArray(h, <<>>)
    ELSE LET h1 == AllocDf(h, [data |-> h.dfs[d].data, columns |-> h.dfs[d].columns,
                               props |-> NoProps])
         IN  Result(defineColumnProperties(h1, Len(h1.dfs)), Len(h1.dfs), FALSE)

\* The reduce of the columns setter over the first n new names: each name
\* takes the row's value under it, else the value under the old name at the
\* same position, else null.
RECURSIVE ReshapeRow(_, _, _, _)
ReshapeRow(row, newColumns, oldColumns, n) ==
    IF n = 0 THEN <<>>
    ELSE LET column == newColumns[n]
             value == IF Get(row, column) # Undef THEN Get(row, column)
                      ELSE IF n - 1 < Len(oldColumns) THEN Get(row, oldColumns[n])
                      ELSE Null
         IN  Put(ReshapeRow(row, newColumns, oldColumns, n - 1), column, value)

\* new Set(newColumns).length < newColumns.length: a Set has no length, so
\* the comparison is undefined < number, which is false for every argument
DuplicateNamesDetected(newColumns) == FALSE

\* set columns(newColumns), newColumns given as the array object c
setColumns(h, d, c) ==
    IF DuplicateNamesDetected(h.cols[c]) THEN Result(h, 0, TRUE)
    ELSE
    LET df == h.dfs[d]
        old == h.cols[df.columns]
        new == h.cols[c]
        rowvals == toArray(h, d)
        reshaped == [i \in DOMAIN rowvals |-> ReshapeRow(rowvals[i], new, old, Len(new))]
        h1 == AllocArr(AllocRows(h, reshaped), FreshRowIds(h, Len(reshaped)))
        h2 == [h1 EXCEPT !.dfs[d] =
                  [data |-> Len(h1.arrs), columns |-> c,
                   props |-> [x \in (DOMAIN df.props) \ Range(old) |-> df.props[x]]]]
    IN  Result(defineColumnProperties(h2, d), 0, FALSE)

\* clone()
clone(h, d) == constructorFromDataFrame(h, d)

\* Array.prototype.slice(start, end): a negative argument counts from the
\* end of the array, and -0 is 0
ArraySlice(xs, start, end) ==
    LET from == IF start < 0 THEN (IF Len(xs) + start < 0 THEN 0 ELSE Len(xs) + start)
                ELSE (IF start > Len(xs) THEN Len(xs) ELSE start)
        to == IF end < 0 THEN (IF Len(xs) + end < 0 THEN 0 ELSE Len(xs) + end)
              ELSE (IF end > Len(xs) THEN Len(xs) ELSE end)
    IN  SubSeq(xs, from + 1, to)

\* slice(start, end = this.length): a DataFrame built from the rows sliced
slice(h, d, start, end) == constructorFromArray(h, ArraySlice(toArray(h, d), start, end))

\* head(n): this.slice(0, n)
head(h, d, n) == slice(h, d, 0, n)

\* tail(n): this.slice(-n)
tail(h, d, n) == slice(h, d, 0 - n, length(h, d))

\* Validator.integer(..., { range: [0, this.length - 1] }) throws
IndexOutOfRange(h, d, index) == index < 0 \/ index > length(h, d) - 1

\* set(index, column, value); index counts from 0.  The cell is written, then
\* set is called on the column's Series, which has no such method: the call
\* throws a TypeError after the write.
set(h, d, index, column, value) ==
    IF IndexOutOfRange(h, d, index) \/ ~Includes(columns(h, d), column)
    THEN Result(h, 0, TRUE)
    ELSE LET r == h.arrs[h.dfs[d].data][index + 1]
         IN  Result([h EXCEPT !.rows[r] = Put(@, column, value)], 0, TRUE)

\* Validator.integer(): the argument is no number, or no integer
NotInteger(v) == v.t # "num" \/ v.d # 1 \/ v.s # ""

\* What a method that hands its index to Validator.integer() first makes of
\* the value v: the validator throws for what is no integer, and the method
\* goes on to r otherwise
Validator_integer(h, v, r) == IF NotInteger(v) THEN Result(h, 0, TRUE) ELSE r

\* What a method that hands its options to Validator.options() first makes
\* of them: the validator throws for a key it does not expect, and the
\* method goes on to r otherwise
Validator_options(h, unknown, r) == IF unknown THEN Result(h, 0, TRUE) ELSE r

\* get(index): the index is validated against [0, length - 1] and the row
\* is returned
get(h, d, index) == Result(h, 0, IndexOutOfRange(h, d, index))

\* An options flag: a key of the options object that is absent, or holds
\* false or true.
Flags == {"absent", "false", "true"}

\* options.flag || false
IsSet(flag) == flag = "true"

\* append() copying the values of the given row as they are, without
\* putting null where the row holds nothing
NewRowOverAsGiven(row, newColumns, n) ==
    [i \in 1..n |-> [k |-> newColumns[i], v |-> Get(row, newColumns[i])]]

\* The new rows append() and insert() build: under every column of
\* newColumns the given row's value, null where that is undefined or null
\* (isNA with keep [0, false, '']).
RECURSIVE NewRowOver(_, _, _)
NewRowOver(row, newColumns, n) ==
    IF n = 0 THEN <<>>
    ELSE LET value == Get(row, newColumns[n])
         IN  Put(NewRowOver(row, newColumns, n - 1), newColumns[n],
                 IF value.t \in {"undef", "null"} THEN Null ELSE value)

\* The columns after append() with extend: the keys of the given rows that
\* are not columns yet follow the columns, in first-seen order.
ExtendedColumns(oldColumns, rowvals) ==
    Distinct(oldColumns \o Flatten([i \in DOMAIN rowvals |-> Keys(rowvals[i])]))

\* append(rows, { extend }) with the options it was handed: an inPlace key
\* is unknown to it, and Validator.options throws before anything is done.
\* The new rows are pushed onto the array object _data refers to; the
\* columns setter then gives the DataFrame a new array.
append(h, d, rowvals, extend, inPlace) ==
    IF inPlace # "absent" THEN Result(h, 0, TRUE)
    ELSE
    LET old == columns(h, d)
        newColumns ==
            IF IsSet(extend)
            THEN old \o SelectSeq(ExtendedColumns(old, rowvals), LAMBDA key : ~Includes(old, key))
            ELSE old
        pushed == [i \in DOMAIN rowvals |-> NewRowOver(rowvals[i], newColumns, Len(newColumns))]
        h1 == AllocRows(h, pushed)
        h2 == [h1 EXCEPT !.arrs[h.dfs[d].data] = @ \o FreshRowIds(h, Len(pushed))]
        h3 == AllocCols(h2, newColumns)
        r == setColumns(h3, d, Len(h3.cols))
    IN  Result(r.h, d, r.err)

\* concat(other, { extend, inPlace }): the options object goes to append()
\* as it is
concat(h, d, other, extend, inPlace) ==
    IF IsSet(inPlace)
    THEN append(h, d, toArray(h, other), extend, inPlace)
    ELSE LET c == clone(h, d)
             r == append(c.h, c.ret, toArray(c.h, other), extend, inPlace)
         IN  IF r.err THEN Result(r.h, 0, TRUE) ELSE Result(r.h, c.ret, FALSE)

\* xs with the elements of ys put in after the element at position index
\* (from 0)
SpliceInAfter(xs, index, ys) ==
    SubSeq(xs, 1, index + 1) \o ys \o SubSeq(xs, index + 2, Len(xs))

\* xs with the elements of ys put in before the element at position index
\* (from 0): what successive splice(index, 0, y), index++ leave
SpliceIn(xs, index, ys) == SubSeq(xs, 1, index) \o ys \o SubSeq(xs, index + 1, Len(xs))

\* insert(rows, index, { extend }): the index is validated against
\* [0, length - 1]; the new rows are spliced into the array object _data
\* refers to, and the columns setter then gives the DataFrame a new array.
insert(h, d, rowvals, index, extend) ==
    IF IndexOutOfRange(h, d, index) THEN Result(h, 0, TRUE)
    ELSE
    LET old == columns(h, d)
        newColumns ==
            IF IsSet(extend)
            THEN old \o SelectSeq(ExtendedColumns(old, rowvals), LAMBDA key : ~Includes(old, key))
            ELSE old
        spliced == [i \in DOMAIN rowvals |-> NewRowOver(rowvals[i], newColumns, Len(newColumns))]
        h1 == AllocRows(h, spliced)
        h2 == [h1 EXCEPT !.arrs[h.dfs[d].data] = SpliceIn(@, index, FreshRowIds(h, Len(spliced)))]
        h3 == AllocCols(h2, newColumns)
        r == setColumns(h3, d, Len(h3.cols))
    IN  Result(r.h, d, r.err)

\* The row replace() builds over the first n columns of the DataFrame: under
\* the columns to replace into, newValue where the row holds oldValue
RECURSIVE ReplacedRow(_, _, _, _, _, _)
ReplacedRow(row, oldValue, newValue, into, cs, n) ==
    IF n = 0 THEN <<>>
    ELSE LET cell == IF Includes(into, cs[n]) /\ Get(row, cs[n]) = oldValue
                     THEN newValue ELSE Get(row, cs[n])
         IN  Put(ReplacedRow(row, oldValue, newValue, into, cs, n - 1), cs[n], cell)

\* replace(oldValue, newValue, { inPlace, columns }): given tells whether
\* the options hold columns, names the names they hold.  The DataFrame, or
\* its clone, gets a new array of new rows.
replace(h, d, oldValue, newValue, given, names, inPlace) ==
    IF given /\ \E i \in DOMAIN names : ~Includes(columns(h, d), names[i])
    THEN Result(h, 0, TRUE)
    ELSE
    LET into == IF given THEN names ELSE columns(h, d)
        c == IF IsSet(inPlace) THEN Result(h, d, FALSE) ELSE clone(h, d)
        cs == columns(h, d)
        rowvals == toArray(c.h, c.ret)
        mapped == [i \in DOMAIN rowvals |->
                      ReplacedRow(rowvals[i], oldValue, newValue, into, cs, Len(cs))]
        h1 == AllocArr(AllocRows(c.h, mapped), FreshRowIds(c.h, Len(mapped)))
        h2 == [h1 EXCEPT !.dfs[c.ret].data = Len(h1.arrs)]
    IN  Result(defineColumnProperties(h2, c.ret), c.ret, FALSE)

\* The projection of a row dropDuplicates() compares: its values under the
\* given columns.
RECURSIVE Project(_, _, _)
Project(row, cs, n) ==
    IF n = 0 THEN <<>> ELSE Put(Project(row, cs, n - 1), cs[n], Get(row, cs[n]))

\* dropDuplicates() dropping row A of a pair of duplicates where the library
\* drops row B: the last row of every projection is kept
RowsToDropKeepingLast(rowvals, cs, n) ==
    {i \in 1..n : \E j \in (i + 1)..n :
        SameJson(Values(Project(rowvals[i], cs, Len(cs))),
                 Values(Project(rowvals[j], cs, Len(cs))))}

\* rowsToDrop after the loops of dropDuplicates() have gone over the first n
\* rows as row B: B is dropped when an earlier row that is not dropped has
\* the same serialized projection.
RECURSIVE RowsToDrop(_, _, _)
RowsToDrop(rowvals, cs, n) ==
    IF n = 0 THEN {}
    ELSE LET before == RowsToDrop(rowvals, cs, n - 1)
             same(i) == SameJson(Values(Project(rowvals[i], cs, Len(cs))),
                                 Values(Project(rowvals[n], cs, Len(cs))))
         IN  IF \E i \in 1..(n - 1) : i \notin before /\ same(i)
             THEN before \cup {n} ELSE before

\* arr with the positions in drop spliced out
SpliceOut(arr, drop) ==
    LET RECURSIVE kept(_)
        kept(n) == IF n = 0 THEN <<>>
                   ELSE IF n \in drop THEN kept(n - 1) ELSE Append(kept(n - 1), arr[n])
    IN  kept(Len(arr))

\* dropDuplicates({ columns, inPlace }); cs = <<>> stands for no columns
\* option.  The rows are spliced out of the array object _data refers to.
dropDuplicates(h, d, cs, inPlace) ==
    IF \E i \in DOMAIN cs : ~Includes(columns(h, d), cs[i]) THEN Result(h, 0, TRUE)
    ELSE
    LET by == IF cs = <<>> THEN columns(h, d) ELSE cs
        drop == RowsToDrop(toArray(h, d), by, length(h, d))
    IN  IF IsSet(inPlace)
        THEN LET h1 == [h EXCEPT !.arrs[h.dfs[d].data] = SpliceOut(@, drop)]
                 r == setColumns(h1, d, h1.dfs[d].columns)
             IN  Result(r.h, d, r.err)
        ELSE LET c == clone(h, d)
                 h1 == [c.h EXCEPT !.arrs[c.h.dfs[c.ret].data] = SpliceOut(@, drop)]
                 r == setColumns(h1, c.ret, h1.dfs[c.ret].columns)
             IN  Result(r.h, c.ret, r.err)

\* filter(callback, { axis: 'rows', inPlace }): keep is the set of positions
\* (from 1) of the rows the callback accepts.  In place the kept row objects
\* go to a new array and the columns setter runs; otherwise a DataFrame is
\* constructed from the kept rows.
filterRows(h, d, keep, inPlace) ==
    LET data == h.arrs[h.dfs[d].data]
        filteredData == SpliceOut(data, DOMAIN data \ keep)
    IN  IF IsSet(inPlace)
        THEN LET h1 == AllocArr(h, filteredData)
                 h2 == [h1 EXCEPT !.dfs[d].data = Len(h1.arrs)]
                 h3 == AllocCols(h2, columns(h, d))
                 r == setColumns(h3, d, Len(h3.cols))
             IN  Result(r.h, d, r.err)
        ELSE constructorFromArray(h, [i \in DOMAIN filteredData |-> h.rows[filteredData[i]]])

\* filter(names, { inPlace }) and filter(callback, { axis: 'columns',
\* inPlace }): wanted is the set of names the filter accepts.  A list holding
\* a name that is no column is refused by Validator.array.
filterColumns(h, d, wanted, inPlace) ==
    IF ~(wanted \subseteq Range(columns(h, d))) THEN Result(h, 0, TRUE)
    ELSE
    LET columnsToKeep == SelectSeq(columns(h, d), LAMBDA column : column \in wanted)
        rowvals == toArray(h, d)
        filteredData ==
            [i \in DOMAIN rowvals |-> Project(rowvals[i], columnsToKeep, Len(columnsToKeep))]
    IN  IF IsSet(inPlace)
        THEN LET h1 == AllocArr(AllocRows(h, filteredData), FreshRowIds(h, Len(filteredData)))
                 h2 == [h1 EXCEPT !.dfs[d].data = Len(h1.arrs)]
                 h3 == AllocCols(h2, columnsToKeep)
                 r == setColumns(h3, d, Len(h3.cols))
             IN  Result(r.h, d, r.err)
        ELSE constructorFromArray(h, filteredData)

\* The column list rename() computes: map is a function from the names to
\* rename to their new names.
RenamedColumns(cs, map) ==
    [i \in DOMAIN cs |-> IF cs[i] \in DOMAIN map THEN map[cs[i]] ELSE cs[i]]

\* rename(map, { inPlace })
rename(h, d, map, inPlace) ==
    LET newColumns == RenamedColumns(columns(h, d), map)
    IN  IF IsSet(inPlace)
        THEN LET h1 == AllocCols(h, newColumns)
                 r == setColumns(h1, d, Len(h1.cols))
             IN  Result(r.h, d, r.err)
        ELSE LET c == clone(h, d)
                 h1 == AllocCols(c.h, newColumns)
                 r == setColumns(h1, c.ret, Len(h1.cols))
             IN  IF r.err THEN Result(r.h, 0, TRUE) ELSE Result(r.h, c.ret, FALSE)

\* The test of reorder(): the list is refused when its length differs from
\* the number of columns or it holds a name that is no column.
ReorderRefused(cs, names) ==
    Len(names) # Len(cs) \/ \E i \in DOMAIN names : ~Includes(cs, names[i])

\* reorder(names, { inPlace }): _columns is made to refer to the given
\* array; rows and column properties are left as they are.
reorder(h, d, names, inPlace) ==
    IF ReorderRefused(columns(h, d), names) THEN Result(h, 0, TRUE)
    ELSE IF IsSet(inPlace)
    THEN LET h1 == AllocCols(h, names)
         IN  Result([h1 EXCEPT !.dfs[d].columns = Len(h1.cols)], d, FALSE)
    ELSE LET c == clone(h, d)
             h1 == AllocCols(c.h, names)
         IN  Result([h1 EXCEPT !.dfs[c.ret].columns = Len(h1.cols)], c.ret, FALSE)

\* The comparator sort() hands to Array.prototype.sort, as its reduce over
\* the first n keys leaves the accumulator: a key on which the two rows
\* agree sets it to 0, whatever it held.
RECURSIVE Compare(_, _, _, _, _)
Compare(a, b, keys, reverse, n) ==
    IF n = 0 THEN 0
    ELSE LET acc == Compare(a, b, keys, reverse, n - 1)
             x == Get(a, keys[n])
             y == Get(b, keys[n])
         IN  IF x = y THEN 0
             ELSE IF acc # 0 THEN acc
             ELSE IF reverse THEN (IF JsLess(y, x) THEN -1 ELSE 1)
             ELSE (IF JsLess(x, y) THEN -1 ELSE 1)

\* Array.prototype.sort on an array shorter than 64, as V8 runs it: the
\* leading run is found (and reversed when strictly descending), then every
\* later element is put in place by binary insertion.  arr holds positions
\* (from 1) into rowvals, the rows being sorted.
RunLength(rowvals, arr, keys, reverse) ==
    IF Len(arr) < 2 THEN Len(arr)
    ELSE LET cmp(i) == Compare(rowvals[arr[i]], rowvals[arr[i - 1]], keys, reverse, Len(keys))
             isDescending == cmp(2) < 0
             goesOn(i) == IF isDescending THEN cmp(i) < 0 ELSE cmp(i) >= 0
         IN  CHOOSE r \in 2..Len(arr) :
                /\ \A i \in 3..r : goesOn(i)
                /\ r < Len(arr) => ~goesOn(r + 1)

Reverse(arr) == [i \in DOMAIN arr |-> arr[Len(arr) + 1 - i]]

CountAndMakeRun(rowvals, arr, keys, reverse) ==
    LET r == RunLength(rowvals, arr, keys, reverse)
    IN  IF r >= 2 /\ Compare(rowvals[arr[2]], rowvals[arr[1]], keys, reverse, Len(keys)) < 0
        THEN Reverse(SubSeq(arr, 1, r)) \o SubSeq(arr, r + 1, Len(arr))
        ELSE arr

\* The place (from 1) binary insertion finds for pivot in arr[left..right-1]
RECURSIVE InsertionPoint(_, _, _, _, _, _, _)
InsertionPoint(rowvals, arr, pivot, left, right, keys, reverse) ==
    IF left >= right THEN left
    ELSE LET mid == left + ((right - left) \div 2)
         IN  IF Compare(rowvals[pivot], rowvals[arr[mid]], keys, reverse, Len(keys)) < 0
             THEN InsertionPoint(rowvals, arr, pivot, left, mid, keys, reverse)
             ELSE InsertionPoint(rowvals, arr, pivot, mid + 1, right, keys, reverse)

RECURSIVE BinaryInsertionSort(_, _, _, _, _)
BinaryInsertionSort(rowvals, arr, start, keys, reverse) ==
    IF start > Len(arr) THEN arr
    ELSE LET left == InsertionPoint(rowvals, arr, arr[start], 1, start, keys, reverse)
             moved == SubSeq(arr, 1, left - 1) \o <<arr[start]>>
                      \o SubSeq(arr, left, start - 1) \o SubSeq(arr, start + 1, Len(arr))
         IN  BinaryInsertionSort(rowvals, moved, start + 1, keys, reverse)

\* [...rows].sort(comparator): the positions (from 1) of the given rows in
\* the order the sort leaves them
SortedOrder(rowvals, keys, reverse) ==
    LET arr == [i \in DOMAIN rowvals |-> i]
    IN  BinaryInsertionSort(rowvals, CountAndMakeRun(rowvals, arr, keys, reverse),
                            RunLength(rowvals, arr, keys, reverse) + 1, keys, reverse)

\* What sort() does with sortedData, the row objects in the order the
\* comparator leaves them: in place it becomes _data and the columns setter
\* runs; otherwise a DataFrame is constructed from it.
Sorted(h, d, sortedData, inPlace) ==
    IF IsSet(inPlace)
    THEN LET h1 == AllocArr(h, sortedData)
             h2 == [h1 EXCEPT !.dfs[d].data = Len(h1.arrs)]
             r == setColumns(h2, d, h2.dfs[d].columns)
         IN  Result(r.h, d, r.err)
    ELSE constructorFromArray(h, [i \in DOMAIN sortedData |-> h.rows[sortedData[i]]])

\* The elements of data at the positions order lists
Ordered(data, order) == [i \in DOMAIN order |-> data[order[i]]]

\* sort(by, { reverse, inPlace }); by is the list of keys
sort(h, d, by, reverse, inPlace) ==
    IF \E i \in DOMAIN by : ~Includes(columns(h, d), by[i]) THEN Result(h, 0, TRUE)
    ELSE Sorted(h, d,
                Ordered(h.arrs[h.dfs[d].data], SortedOrder(toArray(h, d), by, IsSet(reverse))),
                inPlace)

\* The orders arr.sort(() => Math.random() - 0.5) can leave n elements in
Orders(n) == {p \in [1..n -> 1..n] : \A i, j \in 1..n : p[i] = p[j] => i = j}

\* shuffle({ axis, inPlace }) with the order the random comparator yields.
\* Rows are sorted within the array object _data refers to, columns within
\* the array object _columns refers to.
shuffle(h, d, axis, inPlace, order) ==
    IF axis = "rows"
    THEN IF IsSet(inPlace)
         THEN LET h1 == [h EXCEPT !.arrs[h.dfs[d].data] = [i \in DOMAIN @ |-> @[order[i]]]]
                  r == setColumns(h1, d, h1.dfs[d].columns)
              IN  Result(r.h, d, r.err)
         ELSE LET c == clone(h, d)
                  h1 == [c.h EXCEPT !.arrs[c.h.dfs[c.ret].data] = [i \in DOMAIN @ |-> @[order[i]]]]
                  r == setColumns(h1, c.ret, h1.dfs[c.ret].columns)
              IN  Result(r.h, c.ret, r.err)
    ELSE IF IsSet(inPlace)
         THEN Result([h EXCEPT !.cols[h.dfs[d].columns] = [i \in DOMAIN @ |-> @[order[i]]]],
                     d, FALSE)
         ELSE LET c == clone(h, d)
              IN  Result([c.h EXCEPT !.cols[c.h.dfs[c.ret].columns] = [i \in DOMAIN @ |-> @[order[i]]]],
                         c.ret, FALSE)

\* Object.entries(otherRow).reduce((acc, [key, value]) => ({ ...acc,
\* [key]: value }), row), over the first n entries of otherRow
RECURSIVE Merge(_, _, _)
Merge(row, otherRow, n) ==
    IF n = 0 THEN row ELSE Put(Merge(row, otherRow, n - 1), otherRow[n].k, otherRow[n].v)

\* getNewData(data, otherData) of join(), over the first n rows of data:
\* each row is merged with the first row of otherData holding the same value
\* under column; a row without one is left out when how is 'inner' and kept
\* as it is otherwise.
RECURSIVE getNewData(_, _, _, _, _)
getNewData(data, otherData, column, how, n) ==
    IF n = 0 THEN <<>>
    ELSE LET acc == getNewData(data, otherData, column, how, n - 1)
             row == data[n]
             matches == {j \in DOMAIN otherData : Get(row, column) = Get(otherData[j], column)}
         IN  IF matches # {}
             THEN LET otherRow == otherData[CHOOSE j \in matches : \A k \in matches : j <= k]
                  IN  Append(acc, Merge(row, otherRow, Len(otherRow)))
             ELSE IF how = "inner" THEN acc
             ELSE Append(acc, row)

\* The rows join() computes for each how
JoinedData(data, otherData, column, how) ==
    CASE how \in {"inner", "left"} -> getNewData(data, otherData, column, how, Len(data))
      [] how = "right" -> getNewData(otherData, data, column, how, Len(otherData))
      [] how = "outer" -> getNewData(data, otherData, column, how, Len(data))
                          \o getNewData(otherData, data, column, how, Len(otherData))

\* join(other, column, { how, inPlace }).  Not in place, a DataFrame is
\* constructed from the new rows and its dropDuplicates() is returned.  In
\* place, the receiver takes the new rows and the union of the columns, and
\* the result of its dropDuplicates(), called without inPlace, is returned.
join(h, d, other, column, how, inPlace) ==
    IF ~Includes(columns(h, d), column) \/ ~Includes(columns(h, other), column)
    THEN Result(h, 0, TRUE)
    ELSE
    LET newData == JoinedData(toArray(h, d), toArray(h, other), column, how)
    IN  IF ~IsSet(inPlace)
        THEN LET c == constructorFromArray(h, newData)
             IN  dropDuplicates(c.h, c.ret, <<>>, "absent")
        ELSE LET h1 == AllocArr(AllocRows(h, newData), FreshRowIds(h, Len(newData)))
                 h2 == [h1 EXCEPT !.dfs[d].data = Len(h1.arrs)]
                 h3 == AllocCols(h2, Distinct(columns(h, d) \o columns(h, other)))
                 r == setColumns(h3, d, Len(h3.cols))
             IN  IF r.err THEN Result(r.h, 0, TRUE)
                 ELSE dropDuplicates(r.h, d, <<>>, "absent")

\* The values of keep in dropNA(): the default [0, false] and [0, false, '']
DefaultKeep == {Num(0), Bool(FALSE)}
WiderKeep == {Num(0), Bool(FALSE), Str("")}

\* Boolean(e) || keep.includes(e)
NotNA(e, keep) == Truthy(e) \/ e \in keep

\* dropNA({ axis, keep, inPlace }): a filter whose callback accepts a row
\* when every value the row object holds is truthy or in keep, and a column
\* when every value of its Series is.
dropNA(h, d, axis, keep, inPlace) ==
    IF axis = "rows"
    THEN LET rowvals == toArray(h, d)
             accepted == {i \in DOMAIN rowvals :
                             \A j \in DOMAIN rowvals[i] : NotNA(rowvals[i][j].v, keep)}
         IN  filterRows(h, d, accepted, inPlace)
    ELSE IF \E c \in Range(columns(h, d)) : c \notin DOMAIN h.dfs[d].props
    THEN Result(h, 0, TRUE)
    ELSE LET accepted == {c \in Range(columns(h, d)) :
                             \A i \in DOMAIN h.dfs[d].props[c] :
                                 NotNA(h.dfs[d].props[c][i], keep)}
         IN  filterColumns(h, d, accepted, inPlace)

\* Object.fromEntries(this._columns.map(column => ({ [column]: null }))):
\* every entry handed over is an object with neither a 0 nor a 1, so each
\* sets the key 'undefined' to undefined
NullsFromEntries(cs) ==
    IF cs = <<>> THEN <<>> ELSE <<[k |-> "undefined", v |-> Undef]>>

\* addColumn(name, column, { extend, inPlace }) for an array of values
addColumn(h, d, name, data, extend, inPlace) ==
    IF Includes(columns(h, d), name) THEN Result(h, 0, TRUE)
    ELSE
    LET rowvals == toArray(h, d)
        withColumn == [i \in DOMAIN rowvals |->
                          Put(rowvals[i], name, IF i <= Len(data) THEN data[i] ELSE Null)]
        surplus == IF IsSet(extend) /\ Len(data) > Len(rowvals)
                   THEN SubSeq(data, Len(rowvals) + 1, Len(data)) ELSE <<>>
        newData == withColumn \o
                   [i \in DOMAIN surplus |-> Put(NullsFromEntries(columns(h, d)), name, surplus[i])]
    IN  IF IsSet(inPlace)
        THEN LET h1 == AllocArr(AllocRows(h, newData), FreshRowIds(h, Len(newData)))
                 h2 == [h1 EXCEPT !.dfs[d].data = Len(h1.arrs)]
                 h3 == AllocCols(h2, Append(columns(h, d), name))
                 r == setColumns(h3, d, Len(h3.cols))
             IN  Result(r.h, d, r.err)
        ELSE constructorFromArray(h, newData)

(***************************************************************************)
(* Numbers that are no integers, and the functions of d3-array the         *)
(* library calls.  Each takes the numbers left of an array once the        *)
(* accessor has been applied and the values d3 ignores are gone.           *)
(***************************************************************************)
RECURSIVE Gcd(_, _)
Gcd(x, y) == IF y = 0 THEN x ELSE Gcd(y, x % y)

Abs(x) == IF x < 0 THEN -x ELSE x

\* The number p / q, q > 0
Number(p, q) ==
    LET g == Gcd(Abs(p), q)
    IN  [t |-> "num", n |-> p \div g, d |-> q \div g, s |-> ""]

IsSquare(x) == \E r \in 0..x : r * r = x
SquareRoot(x) == CHOOSE r \in 0..x : r * r = x

\* The square root of p / q, p >= 0, q > 0
Root(p, q) ==
    LET x == Number(p, q)
    IN  IF IsSquare(x.n) /\ IsSquare(x.d) THEN Number(SquareRoot(x.n), SquareRoot(x.d))
        ELSE [x EXCEPT !.s = "sqrt"]

RECURSIVE SumOf(_)
SumOf(xs) == IF xs = <<>> THEN 0 ELSE SumOf(SubSeq(xs, 1, Len(xs) - 1)) + xs[Len(xs)]

\* xs in ascending order
RECURSIVE Ascending(_)
Ascending(xs) ==
    IF xs = <<>> THEN <<>>
    ELSE LET front == Ascending(SubSeq(xs, 1, Len(xs) - 1))
             x == xs[Len(xs)]
         IN  SelectSeq(front, LAMBDA y : y <= x) \o <<x>> \o SelectSeq(front, LAMBDA y : y > x)

d3sum(xs) == Num(SumOf(xs))

d3min(xs) == IF xs = <<>> THEN Undef ELSE Num(Ascending(xs)[1])

d3max(xs) == IF xs = <<>> THEN Undef ELSE Num(Ascending(xs)[Len(xs)])

d3extent(xs) == <<d3min(xs), d3max(xs)>>

d3mean(xs) == IF xs = <<>> THEN Undef ELSE Number(SumOf(xs), Len(xs))

\* d3.median: the quantile 0.5 of the sorted numbers
d3median(xs) ==
    IF xs = <<>> THEN Undef
    ELSE LET sorted == Ascending(xs)
             i0 == (Len(xs) - 1) \div 2
         IN  IF (Len(xs) - 1) % 2 = 0 THEN Num(sorted[i0 + 1])
             ELSE Number(sorted[i0 + 1] + sorted[i0 + 2], 2)

\* d3.deviation: the square root of the sum of the squared distances to the
\* mean over n - 1, for n >= 2 numbers
d3deviation(xs) ==
    IF Len(xs) < 2 THEN Undef
    ELSE LET n == Len(xs)
             total == SumOf(xs)
         IN  Root(SumOf([i \in DOMAIN xs |-> (n * xs[i] - total) * (n * xs[i] - total)]),
                  n * n * (n - 1))

\* The aggregates, by the name of the method that computes them
Aggregates == {"sum", "min", "max", "mean", "median", "std"}

d3(aggregate, xs) ==
    CASE aggregate = "sum" -> d3sum(xs)
      [] aggregate = "min" -> d3min(xs)
      [] aggregate = "max" -> d3max(xs)
      [] aggregate = "mean" -> d3mean(xs)
      [] aggregate = "median" -> d3median(xs)
      [] aggregate = "std" -> d3deviation(xs)

\* The numbers +d of the values of an array that are not NaN
Numbers(vals) ==
    LET valid == SelectSeq(vals, CoercesToNumber)
    IN  [i \in DOMAIN valid |-> ToNumber(valid[i])]

(***************************************************************************)
(* Series: the numeric aggregates over the values (_data) of a Series.     *)
(***************************************************************************)
\* this.any(value => Number.isNaN(+value))
AnyNaN(data) == \E i \in DOMAIN data : ~CoercesToNumber(data[i])

\* sum(), min(), max(), mean(), median(), std() handing the values to d3
\* without looking for NaN first
Series_aggregateUnguarded(aggregate, data) ==
    [val |-> d3(aggregate, Numbers(data)), err |-> FALSE]

\* sum(), min(), max(), mean(), median(), std(): the value returned, or the
\* error thrown
Series_aggregate(aggregate, data) ==
    IF AnyNaN(data) THEN [val |-> Undef, err |-> TRUE]
    ELSE [val |-> d3(aggregate, Numbers(data)), err |-> FALSE]

\* extent(): the array returned, or the error thrown
Series_extent(data) ==
    IF AnyNaN(data) THEN [val |-> <<>>, err |-> TRUE]
    ELSE [val |-> d3extent(Numbers(data)), err |-> FALSE]

\* The callback handed to reduce() in the program: it returns the pair of
\* its accumulator and of the value, so that what reduce() returns tells
\* which calls were made, in which order
fn(acc, value) == [acc |-> acc, value |-> value]

\* Array.prototype.reduce(callback, initialValue) over the elements of data
\* from the n-th on, acc being the accumulator so far
RECURSIVE ArrayReduce(_, _, _)
ArrayReduce(data, acc, n) ==
    IF n > Len(data) THEN acc ELSE ArrayReduce(data, fn(acc, data[n]), n + 1)

\* reduce(callback, initial): given tells whether the call has a second
\* argument.  An initial value is handed on when it is truthy; otherwise
\* the array is reduced without one, which throws a TypeError for an
\* array without elements.
Series_reduce(data, given, initial) ==
    IF given /\ Truthy(initial) THEN [val |-> ArrayReduce(data, initial, 1), err |-> FALSE]
    ELSE IF data = <<>> THEN [val |-> Undef, err |-> TRUE]
    ELSE [val |-> ArrayReduce(data, data[1], 2), err |-> FALSE]

\* new Series(data) for an array of values: _data is a copy through JSON
Series_constructor(h, data) ==
    LET h1 == [h EXCEPT !.vals = Append(@, Series(data))]
        h2 == [h1 EXCEPT !.srs = Append(@, [data |-> Len(h1.vals)])]
    IN  Result(h2, Len(h2.srs), FALSE)

\* toArray(): this._data
Series_toArray(h, s) == h.vals[h.srs[s].data]

\* slice(start, end = this.length): a Series built from the values sliced
Series_slice(h, s, start, end) ==
    Series_constructor(h, ArraySlice(Series_toArray(h, s), start, end))

\* head(n): this.slice(0, n)
Series_head(h, s, n) == Series_slice(h, s, 0, n)

\* tail(n): this.slice(-n)
Series_tail(h, s, n) == Series_slice(h, s, 0 - n, Len(Series_toArray(h, s)))

(***************************************************************************)
(* PivotTable.  The tree of a PivotTable is kept as the sequence of its    *)
(* leaves in the order Object.entries walks the nested objects, each with  *)
(* the keys on the way to it and the DataFrame it holds.                   *)
(***************************************************************************)
NumericStringsInOrder == <<"0", "1", "2">>

\* String(value), as d3-collection's nest turns the value of a key function
\* into the key of a group
JsString(v) ==
    CASE v.t = "num" -> NumericStringsInOrder[v.n + 1]
      [] v.t = "str" -> v.s
      [] v.t = "bool" -> IF v.n = 1 THEN "true" ELSE "false"
      [] v.t = "null" -> "null"
      [] OTHER -> "undefined"

\* key.split('|'): the only key of the model holding the delimiter is 'p|q'
Split(key) == IF key = "p|q" THEN <<"p", "q">> ELSE <<key>>

\* The keys of the groups of one level in the order of the tree: nest keeps
\* them in the order met, sortKeys((a, b) => a - b) sorts the numeric ones
\* (a - b is NaN, a tie, for the others), and an object lists its
\* integer keys first, in ascending order.
KeyOrder(keys) ==
    SelectSeq(NumericStringsInOrder, LAMBDA k : Includes(keys, k))
    \o SelectSeq(keys, LAMBDA k : k \notin NumericStrings)

\* The leaves below the rows at the positions idxs of rowvals, grouped by
\* the pivots from the n-th on
RECURSIVE Leaves(_, _, _, _)
Leaves(rowvals, idxs, pivots, n) ==
    IF n > Len(pivots) THEN <<[path |-> <<>>, members |-> idxs]>>
    ELSE LET key(i) == JsString(Get(rowvals[i], pivots[n]))
             keys == KeyOrder(Distinct([j \in DOMAIN idxs |-> key(idxs[j])]))
             below(k) == Leaves(rowvals, SelectSeq(idxs, LAMBDA i : key(i) = keys[k]),
                                pivots, n + 1)
         IN  Flatten([k \in DOMAIN keys |->
                        [j \in DOMAIN below(k) |->
                            [path |-> <<keys[k]>> \o below(k)[j].path,
                             members |-> below(k)[j].members]]])

\* Kiwis.DataFrame(entry.values).drop(this._pivots) for the first n leaves:
\* the heap with the DataFrames made, and the tree
RECURSIVE BuildLeaves(_, _, _, _, _)
BuildLeaves(h, rowvals, leaves, pivots, n) ==
    IF n = 0 THEN [h |-> h, tree |-> <<>>]
    ELSE LET acc == BuildLeaves(h, rowvals, leaves, pivots, n - 1)
             members == leaves[n].members
             made == constructorFromArray(acc.h, [i \in DOMAIN members |-> rowvals[members[i]]])
             kept == Range(columns(made.h, made.ret)) \ Range(pivots)
             leaf == filterColumns(made.h, made.ret, kept, "absent")
         IN  [h |-> leaf.h,
              tree |-> Append(acc.tree, [path |-> leaves[n].path, leaf |-> leaf.ret])]

\* pivot(columns) keeping the DataFrame itself and, in the leaves, its row
\* objects, where the library keeps copies
pivotSharingRows(h, d, pivots) ==
    IF \E i \in DOMAIN pivots : ~Includes(columns(h, d), pivots[i]) THEN Result(h, 0, TRUE)
    ELSE IF length(h, d) = 0 THEN Result(h, 0, TRUE)
    ELSE
    LET rowvals == toArray(h, d)
        ids == h.arrs[h.dfs[d].data]
        leaves == Leaves(rowvals, [i \in DOMAIN rowvals |-> i], pivots, 1)
        members(i) == [j \in DOMAIN leaves[i].members |-> ids[leaves[i].members[j]]]
        h1 == [h EXCEPT !.arrs = @ \o [i \in DOMAIN leaves |-> members(i)],
                        !.dfs = @ \o [i \in DOMAIN leaves |->
                                        [data |-> Len(h.arrs) + i,
                                         columns |-> h.dfs[d].columns,
                                         props |-> NoProps]]]
    IN  Result([h1 EXCEPT !.pts = Append(@,
                   [df |-> d, pivots |-> pivots,
                    columns |-> SelectSeq(columns(h, d), LAMBDA x : ~Includes(pivots, x)),
                    tree |-> [i \in DOMAIN leaves |->
                                 [path |-> leaves[i].path, leaf |-> Len(h.dfs) + i]]])],
               0, FALSE)

\* this._tree, and the PivotTable: df is this._df, built the leaves made of
\* its rows
PivotTable_tree(h, df, built, pivots) ==
    Result([built.h EXCEPT !.pts = Append(@,
               [df |-> df, pivots |-> pivots,
                columns |-> SelectSeq(columns(h, df), LAMBDA x : ~Includes(pivots, x)),
                tree |-> built.tree])],
           0, FALSE)

\* The entries of the nest of the rows of this._df, each made a leaf
PivotTable_entries(h, df, rowvals, leaves, pivots) ==
    PivotTable_tree(h, df, BuildLeaves(h, rowvals, leaves, pivots, Len(leaves)), pivots)

\* new PivotTable(df, columns) once df.clone().sort(columns) has run:
\* sorted is what the sort has returned or thrown in heap h
PivotTable_constructor(h, sorted, pivots) ==
    IF sorted.err THEN Result(h, 0, TRUE)
    ELSE PivotTable_entries(sorted.h, sorted.ret, toArray(sorted.h, sorted.ret),
             IF length(sorted.h, sorted.ret) = 0 THEN <<>>
             ELSE Leaves(toArray(sorted.h, sorted.ret),
                         [i \in 1..length(sorted.h, sorted.ret) |-> i], pivots, 1),
             pivots)

\* pivot(columns): DataFrame.pivot validates the columns and constructs the
\* PivotTable, which keeps a sorted copy of the DataFrame and the tree.  The
\* sort of the copy validates the columns once more, against the columns of
\* the clone; with no pivot the entries of the nest are the rows, which have
\* no values to read.
pivot(h, d, pivots) ==
    IF \E i \in DOMAIN pivots : ~Includes(columns(h, d), pivots[i]) THEN Result(h, 0, TRUE)
    ELSE IF pivots = <<>> /\ length(h, d) > 0 THEN Result(h, 0, TRUE)
    ELSE PivotTable_constructor(h, sort(clone(h, d).h, clone(h, d).ret, pivots,
                                        "absent", "absent"),
                                pivots)

\* The row rollup() makes of a flattened key and its value: the parts of
\* the key go under the pivots, what follows under name
RECURSIVE RolledUpRow(_, _, _, _)
RolledUpRow(values, pivots, name, n) ==
    IF n = 0 THEN <<>>
    ELSE Put(RolledUpRow(values, pivots, name, n - 1),
             IF n - 1 < Len(pivots) THEN pivots[n] ELSE name, values[n])

\* rollup(callback, { name }), results[i] being what the callback returns
\* for the rows of the i-th leaf (a number or undefined)
rollup(h, g, results, name) ==
    LET pt == h.pts[g]
        data == [i \in DOMAIN pt.tree |->
                    LET values == Flatten([j \in DOMAIN pt.tree[i].path |->
                                              [k \in DOMAIN Split(pt.tree[i].path[j]) |->
                                                  Str(Split(pt.tree[i].path[j])[k])]])
                                  \o <<results[i]>>
                    IN  RolledUpRow(values, pt.pivots, name, Len(values))]
    IN  constructorFromArray(h, data)

\* The rows of the i-th leaf of PivotTable g
LeafRows(h, g, i) == toArray(h, h.pts[g].tree[i].leaf)

\* count()
PivotTable_count(h, g) ==
    rollup(h, g, [i \in DOMAIN h.pts[g].tree |-> Num(Len(LeafRows(h, g, i)))], "count")

\* column[0].toUpperCase() + column.slice(1), for the columns of the model
Capitalized(column) ==
    CASE column = "v" -> "V"
      [] column = "a" -> "A"
      [] column = "b" -> "B"

\* 'sum' + column[0].toUpperCase() + column.slice(1), and so on
AggregateName(aggregate, column) == aggregate \o Capitalized(column)

\* sum(column), min(column), max(column), mean(column), median(column),
\* std(column): a rollup with the function of d3-array over the values of
\* the column that are numbers once converted
PivotTable_aggregate(h, g, aggregate, column) ==
    IF ~Includes(h.pts[g].columns, column) THEN Result(h, 0, TRUE)
    ELSE rollup(h, g,
                [i \in DOMAIN h.pts[g].tree |->
                    LET l == LeafRows(h, g, i)
                    IN  d3(aggregate, Numbers([j \in DOMAIN l |-> Get(l[j], column)]))],
                AggregateName(aggregate, column))

(***************************************************************************)
(* Series: the methods that build a Series from another one or change a    *)
(* Series.  this._data = x makes the Series refer to a new array;          *)
(* splice and sort work within the array object _data refers to.           *)
(***************************************************************************)
\* new Series(data) for a Series: _data is the very array of the given one
Series_constructorFromSeries(h, s) ==
    LET h1 == [h EXCEPT !.srs = Append(@, [data |-> h.srs[s].data])]
    IN  Result(h1, Len(h1.srs), FALSE)

\* clone(): new Series(this)
Series_clone(h, s) == Series_constructorFromSeries(h, s)

\* this._data = data, data being a new array
Series_assign(h, s, data) ==
    LET h1 == [h EXCEPT !.vals = Append(@, data)]
    IN  [h1 EXCEPT !.srs[s].data = Len(h1.vals)]

\* append(values): this._data = [...this._data, ...data]; return this
Series_append(h, s, data) ==
    Result(Series_assign(h, s, Series_toArray(h, s) \o data), s, FALSE)

\* Validator.integer(..., { range: [0, this.length - 1] }) throws
Series_IndexOutOfRange(h, s, index) == index < 0 \/ index > Len(Series_toArray(h, s)) - 1

\* insert(values, index = 0): the index is validated against
\* [0, length - 1], then this._data.splice(index, 0, ...data); return this
Series_insert(h, s, data, index) ==
    IF Series_IndexOutOfRange(h, s, index) THEN Result(h, 0, TRUE)
    ELSE Result([h EXCEPT !.vals[h.srs[s].data] = SpliceIn(@, index, data)], s, FALSE)

\* concat(other, { inPlace }): this.append(other.toArray(), options), and
\* append takes no options
Series_concat(h, s, other, inPlace) == Series_append(h, s, Series_toArray(h, other))

\* What filter(), sort() and round() do with the array they computed: in
\* place it becomes _data, otherwise a Series is constructed from it.
Series_result(h, s, data, inPlace) ==
    IF IsSet(inPlace) THEN Result(Series_assign(h, s, data), s, FALSE)
    ELSE Series_constructor(h, data)

\* filter(callback, { inPlace }): keep is the set of positions (from 1) of
\* the values the callback accepts
Series_filter(h, s, keep, inPlace) ==
    Series_result(h, s, SpliceOut(Series_toArray(h, s), DOMAIN Series_toArray(h, s) \ keep),
                  inPlace)

\* drop(callback, { inPlace }): this.filter(e => !callback(e), options);
\* dropped is the set of positions of the values the callback accepts
Series_drop(h, s, dropped, inPlace) ==
    Series_filter(h, s, DOMAIN Series_toArray(h, s) \ dropped, inPlace)

\* dropNA({ keep, inPlace }): this.filter(value => Boolean(value) ||
\* keep.includes(value)), the options being left behind
Series_dropNA(h, s, keep, inPlace) ==
    Series_filter(h, s, {i \in DOMAIN Series_toArray(h, s) : NotNA(Series_toArray(h, s)[i], keep)},
                  "absent")

\* dropDuplicates({ inPlace }): in place this._data = [...new Set(this._data)];
\* otherwise the same on a clone
Series_dropDuplicates(h, s, inPlace) ==
    IF IsSet(inPlace) THEN Result(Series_assign(h, s, Distinct(Series_toArray(h, s))), s, FALSE)
    ELSE LET c == Series_clone(h, s)
         IN  Result(Series_assign(c.h, c.ret, Distinct(Series_toArray(c.h, c.ret))), c.ret, FALSE)

\* [...data].sort((a, b) => reverse ? b - a : a - b) for values that all
\* convert to numbers: the sort is stable, values with equal numbers keep
\* their order
SortedByNumber(data, reverse) ==
    LET key(i) == IF reverse THEN 0 - ToNumber(data[i]) ELSE ToNumber(data[i])
        rank(i) == Cardinality({j \in DOMAIN data :
                                    key(j) < key(i) \/ (key(j) = key(i) /\ j < i)}) + 1
    IN  [k \in DOMAIN data |-> data[CHOOSE i \in DOMAIN data : rank(i) = k]]

\* sort({ reverse, inPlace }), called on values that all convert to numbers
Series_sort(h, s, reverse, inPlace) ==
    Series_result(h, s, SortedByNumber(Series_toArray(h, s), IsSet(reverse)), inPlace)

\* shuffle({ inPlace }) with the order the random comparator yields: in
\* place this._data.sort(...); otherwise the array of a clone is sorted
Series_shuffle(h, s, inPlace, order) ==
    IF IsSet(inPlace)
    THEN Result([h EXCEPT !.vals[h.srs[s].data] = Ordered(@, order)], s, FALSE)
    ELSE LET c == Series_clone(h, s)
         IN  Result([c.h EXCEPT !.vals[c.h.srs[c.ret].data] = Ordered(@, order)], c.ret, FALSE)

\* (+value).toFixed(digits), for the numbers and the digits of the model
ToFixed(v, digits) ==
    Str(NumericStringsInOrder[ToNumber(v) + 1] \o (IF digits = 0 THEN "" ELSE ".0"))

\* round(digits = 0, { inPlace }): throws when some value is no number once
\* converted; otherwise every value becomes the text toFixed gives
Series_round(h, s, digits, inPlace) ==
    IF AnyNaN(Series_toArray(h, s)) THEN Result(h, 0, TRUE)
    ELSE Series_result(h, s,
                       [i \in DOMAIN Series_toArray(h, s) |-> ToFixed(Series_toArray(h, s)[i], digits)],
                       inPlace)

(***************************************************************************)
(* The program using the library: it builds two DataFrames, T (object 1)   *)
(* and O (object 2), and then calls public methods on T and on the         *)
(* DataFrames those calls return.                                          *)
(***************************************************************************)
T == 1
O == 2

SeqsUpTo(S, n) == UNION {[1..m -> S] : m \in 0..n}

Cell(key, value) == [k |-> key, v |-> value]

\* { a: x, b: y }
RowAB(x, y) == <<Cell("a", Num(x)), Cell("b", Num(y))>>

SessionRows == {RowAB(1, 1), RowAB(1, 2), RowAB(2, 1)}
OtherRows == {RowAB(1, 2), <<Cell("a", Num(1)), Cell("c", Num(1))>>}
AppendRows == {RowAB(2, 2), <<Cell("a", Num(1)), Cell("c", Num(1))>>}

\* The two DataFrames built from the arrays t and o
Built(t, o) == constructorFromArray(constructorFromArray(EmptyHeap, t).h, o).h

Init ==
    /\ \E t \in SeqsUpTo(SessionRows, MaxRows), o \in SeqsUpTo(OtherRows, MaxOtherRows) :
          o # <<>> /\ w = Built(t, o)
    /\ pre = w
    /\ hist = <<>>
    /\ budget = MaxSteps

\* The DataFrames the program calls methods on
Receivers == {T} \cup ({hist[i].ret : i \in DOMAIN hist} \ {0})

CanCall == Len(hist) < budget

\* A call of method op on receiver d with result r
Call(op, d, inPlace, arg, r) ==
    /\ w' = r.h
    /\ pre' = w
    /\ hist' = Append(hist, [op |-> op, recv |-> d, inPlace |-> inPlace, arg |-> arg,
                             ret |-> r.ret, err |-> r.err])
    /\ UNCHANGED budget

\* The values an inPlace option takes in the calls of the program
InPlace == {"absent", "true"}

Clone ==
    /\ CanCall
    /\ \E d \in Receivers : Call("clone", d, "absent", <<>>, clone(w, d))

Set ==
    /\ CanCall
    /\ \E d \in Receivers, index \in 0..MaxRows, column \in {"b", "c"} :
          Call("set", d, "true", <<index, column, Num(2)>>, set(w, d, index, column, Num(2)))

Append_ ==
    /\ CanCall
    /\ \E d \in Receivers, row \in AppendRows, extend \in {"absent", "true"} :
          Call("append", d, "true", <<row, extend>>, append(w, d, <<row>>, extend, "absent"))

Concat ==
    /\ CanCall
    /\ \E d \in Receivers, extend \in {"absent", "true"}, inPlace \in Flags :
          Call("concat", d, inPlace, <<extend>>, concat(w, d, O, extend, inPlace))

DropDuplicates ==
    /\ CanCall
    /\ \E d \in Receivers, cs \in {<<>>, <<"a">>}, inPlace \in InPlace :
          Call("dropDuplicates", d, inPlace, cs, dropDuplicates(w, d, cs, inPlace))

FilterRows ==
    /\ CanCall
    /\ \E d \in Receivers, inPlace \in InPlace :
          \E keep \in SUBSET (1..length(w, d)) :
              Call("filter", d, inPlace, <<"rows", keep>>, filterRows(w, d, keep, inPlace))

FilterColumns ==
    /\ CanCall
    /\ \E d \in Receivers, inPlace \in InPlace, wanted \in {{}, {"a"}, {"a", "c"}} :
          Call("filter", d, inPlace, <<"columns", wanted>>,
               filterColumns(w, d, wanted, inPlace))

\* { a: 'c' }, { a: 'b' } and { a: 'b', b: 'a' }
RenameMaps ==
    {[x \in {"a"} |-> "c"], [x \in {"a"} |-> "b"],
     [x \in {"a", "b"} |-> IF x = "a" THEN "b" ELSE "a"]}

Rename ==
    /\ CanCall
    /\ \E d \in Receivers, inPlace \in InPlace, map \in RenameMaps :
          Call("rename", d, inPlace, map, rename(w, d, map, inPlace))

Reorder ==
    /\ CanCall
    /\ \E d \in Receivers, inPlace \in InPlace :
          \E names \in {<<"b", "a">>, <<"a", "a">>, <<"a">>} :
              Call("reorder", d, inPlace, names, reorder(w, d, names, inPlace))

Sort ==
    /\ CanCall
    /\ \E d \in Receivers, inPlace \in InPlace, reverse \in {"absent", "true"} :
          \E by \in {<<"b">>, <<"a", "b">>} :
              Call("sort", d, inPlace, <<by, reverse>>, sort(w, d, by, reverse, inPlace))

Shuffle ==
    /\ CanCall
    /\ \E d \in Receivers, inPlace \in InPlace, axis \in {"rows", "columns"} :
          \E order \in Orders(IF axis = "rows" THEN length(w, d) ELSE Len(columns(w, d))) :
              Call("shuffle", d, inPlace, <<axis, order>>, shuffle(w, d, axis, inPlace, order))

Join ==
    /\ CanCall
    /\ \E d \in Receivers, inPlace \in InPlace :
          \E how \in {"inner", "left", "right", "outer"} :
              Call("join", d, inPlace, <<"a", how>>, join(w, d, O, "a", how, inPlace))

Next ==
    \/ Clone
    \/ Set
    \/ Append_
    \/ Concat
    \/ DropDuplicates
    \/ FilterRows
    \/ FilterColumns
    \/ Rename
    \/ Reorder
    \/ Sort
    \/ Shuffle
    \/ Join

Spec == Init /\ [][Next]_vars

(***************************************************************************)
(* Sorting on its own: one call of sort() on a table whose rows hold 1 or  *)
(* 2 under a and b and, under c, their position in the table.              *)
(***************************************************************************)
RowABC(x, y, z) == <<Cell("a", Num(x)), Cell("b", Num(y)), Cell("c", Num(z))>>

SortKeys == {<<1, 1>>, <<1, 2>>, <<2, 1>>, <<2, 2>>}

InitSort ==
    /\ \E ks \in SeqsUpTo(SortKeys, MaxSortRows) :
          w = constructorFromArray(EmptyHeap,
                  [i \in DOMAIN ks |-> RowABC(ks[i][1], ks[i][2], i)]).h
    /\ pre = w
    /\ hist = <<>>
    /\ budget = 1

NextSort == Sort

SpecSort == InitSort /\ [][NextSort]_vars

(***************************************************************************)
(* Joining on its own: one call of join() on column a.                     *)
(***************************************************************************)
RowAC(x, z) == <<Cell("a", Num(x)), Cell("c", Num(z))>>

JoinRows == {RowAB(1, 1), RowAB(1, 2), RowAB(2, 1)}
JoinOtherRows == {RowAC(1, 1), RowAC(1, 2), RowAC(3, 1), RowAB(1, 2)}

InitJoin ==
    /\ \E t \in SeqsUpTo(JoinRows, MaxJoinRows), o \in SeqsUpTo(JoinOtherRows, MaxJoinRows) :
          w = Built(t, o)
    /\ pre = w
    /\ hist = <<>>
    /\ budget = 1

NextJoin == Join

SpecJoin == InitJoin /\ [][NextJoin]_vars

(***************************************************************************)
(* The claims.                                                             *)
(***************************************************************************)
Called == hist # <<>>
Last == hist[Len(hist)]

\* The rows and the column list of DataFrame d are in heap h1 what they
\* are in heap h2.
SameTable(h1, h2, d) == toArray(h1, d) = toArray(h2, d) /\ columns(h1, d) = columns(h2, d)

\* The call changes its receiver whatever its options
Mutates(call) ==
    \/ call.op \in {"set", "append"}
    \/ call.op \in {"sort", "shuffle", "dropDuplicates"} /\ call.inPlace = "true"

\* C1: T.clone() has the rows and the columns of T, and a mutation made
\* through the clone (set, append, in-place sort, shuffle or dropDuplicates)
\* leaves the rows and the columns of T as they were, and the other way
\* round.
C1_CloneIndependent ==
    /\ (Called /\ Last.op = "clone") =>
          /\ toArray(w, Last.ret) = toArray(w, Last.recv)
          /\ columns(w, Last.ret) = columns(w, Last.recv)
    /\ (Len(hist) >= 2 /\ hist[Len(hist) - 1].op = "clone" /\ Mutates(Last)) =>
          LET original == hist[Len(hist) - 1].recv
              copy == hist[Len(hist) - 1].ret
          IN  /\ Last.recv = copy => SameTable(w, pre, original)
              /\ Last.recv = original => SameTable(w, pre, copy)

\* The methods that take an inPlace option
CopyOps == {"filter", "concat", "join", "rename", "reorder", "dropDuplicates", "sort", "shuffle"}

\* C2: a method that takes an inPlace option, called without it or with
\* inPlace false, leaves the rows, their order and the column list of its
\* receiver as they were.
C2_CopyByDefault ==
    (Called /\ Last.op \in CopyOps /\ Last.inPlace \in {"absent", "false"}) =>
        SameTable(w, pre, Last.recv)

\* C3: set(index, column, value) with an index in range and an existing
\* column does not throw; afterwards the row holds the value, the Series of
\* the column holds it at index, and every other cell is as it was.
C3_SetWritesCell ==
    (/\ Called
     /\ Last.op = "set"
     /\ ~IndexOutOfRange(pre, Last.recv, Last.arg[1])
     /\ Includes(columns(pre, Last.recv), Last.arg[2])) =>
        LET d == Last.recv
            index == Last.arg[1] + 1
            column == Last.arg[2]
            value == Last.arg[3]
        IN  /\ ~Last.err
            /\ Get(toArray(w, d)[index], column) = value
            /\ w.dfs[d].props[column][index] = value
            /\ \A i \in DOMAIN toArray(w, d) : \A c \in Range(columns(w, d)) :
                  (i # index \/ c # column) =>
                      Get(toArray(w, d)[i], c) = Get(toArray(pre, d)[i], c)

\* The first key of by on which rows x and y differ (0: none)
FirstDifference(x, y, by) ==
    IF \E n \in DOMAIN by : Get(x, by[n]) # Get(y, by[n])
    THEN CHOOSE n \in DOMAIN by :
            /\ Get(x, by[n]) # Get(y, by[n])
            /\ \A m \in 1..(n - 1) : Get(x, by[m]) = Get(y, by[m])
    ELSE 0

\* C4: sort(by) orders the rows by the keys in priority order: of two rows
\* of the result the earlier one is smaller (greater when reverse is set) on
\* the first key on which they differ.
C4_SortLexicographic ==
    (Called /\ Last.op = "sort" /\ ~Last.err) =>
        LET rows == toArray(w, Last.ret)
            by == Last.arg[1]
        IN  \A i, j \in DOMAIN rows :
               (i < j /\ FirstDifference(rows[i], rows[j], by) # 0) =>
                   LET key == by[FirstDifference(rows[i], rows[j], by)]
                   IN  IF Last.arg[2] = "true"
                       THEN JsLess(Get(rows[j], key), Get(rows[i], key))
                       ELSE JsLess(Get(rows[i], key), Get(rows[j], key))

\* C5: sort() is stable: the result holds the rows of the receiver, each
\* once, and rows that agree on every key of by keep the order they had in
\* the receiver.  (Under SpecSort column c of a row is its position in the
\* receiver.)
C5_SortStable ==
    (Called /\ Last.op = "sort" /\ ~Last.err) =>
        LET rows == toArray(w, Last.ret)
            before == toArray(pre, Last.recv)
            from(i) == Get(rows[i], "c").n
        IN  /\ Len(rows) = Len(before)
            /\ \A i \in DOMAIN rows : from(i) \in DOMAIN before /\ rows[i] = before[from(i)]
            /\ \A i, j \in DOMAIN rows : (i # j) => from(i) # from(j)
            /\ \A i, j \in DOMAIN rows :
                  (i < j /\ FirstDifference(rows[i], rows[j], Last.arg[1]) = 0) =>
                      from(i) < from(j)

\* arr without the elements that occur earlier in it
RECURSIVE WithoutLaterDuplicates(_)
WithoutLaterDuplicates(arr) ==
    IF arr = <<>> THEN <<>>
    ELSE LET front == WithoutLaterDuplicates(SubSeq(arr, 1, Len(arr) - 1))
         IN  IF Includes(SubSeq(arr, 1, Len(arr) - 1), arr[Len(arr)])
             THEN front ELSE Append(front, arr[Len(arr)])

\* The first row of otherRows holding value under column (0: none)
FirstMatch(otherRows, column, value) ==
    IF \E j \in DOMAIN otherRows : Get(otherRows[j], column) = value
    THEN CHOOSE j \in DOMAIN otherRows :
            /\ Get(otherRows[j], column) = value
            /\ \A k \in 1..(j - 1) : Get(otherRows[k], column) # value
    ELSE 0

\* The join of the claim, before duplicates are removed, over the first n
\* rows: a row with a match gives one row, itself with the fields of its
\* first match; a row without gives nothing (inner) or itself (left).
RECURSIVE ReferenceJoin(_, _, _, _, _)
ReferenceJoin(rows, otherRows, column, how, n) ==
    IF n = 0 THEN <<>>
    ELSE LET front == ReferenceJoin(rows, otherRows, column, how, n - 1)
             j == FirstMatch(otherRows, column, Get(rows[n], column))
         IN  IF j # 0 THEN Append(front, Merge(rows[n], otherRows[j], Len(otherRows[j])))
             ELSE IF how = "inner" THEN front
             ELSE Append(front, rows[n])

\* C6: join(other, column) with how 'inner' or 'left' returns, for each row
\* of the receiver in order, the row merged with its first match in other;
\* a row without a match is dropped for 'inner' and kept with its own
\* fields only for 'left'; later duplicate rows are removed.
C6_JoinReference ==
    (/\ Called
     /\ Last.op = "join"
     /\ Last.inPlace = "absent"
     /\ Last.arg[2] \in {"inner", "left"}
     /\ Includes(columns(pre, Last.recv), Last.arg[1])
     /\ Includes(columns(pre, O), Last.arg[1])) =>
        /\ ~Last.err
        /\ toArray(w, Last.ret) =
              WithoutLaterDuplicates(
                  ReferenceJoin(toArray(pre, Last.recv), toArray(pre, O), Last.arg[1],
                                Last.arg[2], length(pre, Last.recv)))

\* Row merged is made of rows x and y alone: under every one of the given
\* columns it holds what x or y holds.
MergedFrom(merged, x, y, cs) ==
    \A c \in Range(cs) : Get(merged, c) \in {Get(x, c), Get(y, c)}

\* C7: the result of join with how 'outer' holds every matched pair (a row
\* and the row of the other table it matched) as one merged row, once.
C7_OuterMergedOnce ==
    (Called /\ Last.op = "join" /\ Last.arg[2] = "outer" /\ ~Last.err) =>
        LET rows == toArray(pre, Last.recv)
            otherRows == toArray(pre, O)
            column == Last.arg[1]
            result == toArray(w, Last.ret)
            pairs == {<<i, FirstMatch(otherRows, column, Get(rows[i], column))>> :
                         i \in DOMAIN rows}
                     \cup {<<FirstMatch(rows, column, Get(otherRows[j], column)), j>> :
                              j \in DOMAIN otherRows}
        IN  \A p \in pairs :
               (p[1] # 0 /\ p[2] # 0) =>
                   Cardinality({k \in DOMAIN result :
                                   MergedFrom(result[k], rows[p[1]], otherRows[p[2]],
                                              columns(w, Last.ret))}) = 1

\* No name occurs twice in the column list
NoDuplicates(cs) == \A i, j \in DOMAIN cs : cs[i] = cs[j] => i = j

\* C8: no DataFrame of the program ever has a name twice in its column
\* list, and a rename whose resulting list would hold a name twice throws
\* and leaves the receiver as it was.
C8_UniqueColumns ==
    /\ \A d \in Receivers \cup {O} : NoDuplicates(columns(w, d))
    /\ (/\ Called
        /\ Last.op = "rename"
        /\ ~NoDuplicates(RenamedColumns(columns(pre, Last.recv), Last.arg))) =>
           Last.err /\ SameTable(w, pre, Last.recv)

\* names holds every column of cs exactly once and nothing else
IsPermutation(names, cs) ==
    /\ Len(names) = Len(cs)
    /\ \A i \in DOMAIN cs : Cardinality({j \in DOMAIN names : names[j] = cs[i]}) = 1

\* C9: reorder(names) throws and leaves the receiver as it was unless names
\* is a permutation of the column list; when it succeeds, the column list
\* of the result is names and every row holds under every column what it
\* held.
C9_ReorderPermutation ==
    (Called /\ Last.op = "reorder") =>
        IF IsPermutation(Last.arg, columns(pre, Last.recv))
        THEN /\ ~Last.err
             /\ columns(w, Last.ret) = Last.arg
             /\ Len(toArray(w, Last.ret)) = length(pre, Last.recv)
             /\ \A i \in DOMAIN toArray(w, Last.ret) : \A c \in Range(Last.arg) :
                   Get(toArray(w, Last.ret)[i], c) = Get(toArray(pre, Last.recv)[i], c)
        ELSE Last.err /\ SameTable(w, pre, Last.recv)

\* C10: after rename(map), with the new names distinct, every row holds
\* under the new name of a column what it held under the old name, also
\* when a new name is the old name of another column.
C10_RenameValuesTravel ==
    (/\ Called
     /\ Last.op = "rename"
     /\ ~Last.err
     /\ NoDuplicates(columns(pre, Last.recv))
     /\ NoDuplicates(RenamedColumns(columns(pre, Last.recv), Last.arg))) =>
        LET old == columns(pre, Last.recv)
            new == RenamedColumns(old, Last.arg)
            before == toArray(pre, Last.recv)
            after == toArray(w, Last.ret)
        IN  /\ Len(after) = Len(before)
            /\ \A i \in DOMAIN after : \A n \in DOMAIN old :
                  Get(after[i], new[n]) = Get(before[i], old[n])

\* C11: filter(predicate) on the rows returns a DataFrame with the column
\* list of the receiver, whatever the predicate accepts, and with the rows
\* of the receiver the predicate accepts, in their order.
C11_FilterRowsKeepsColumns ==
    (Called /\ Last.op = "filter" /\ Last.arg[1] = "rows") =>
        /\ ~Last.err
        /\ columns(w, Last.ret) = columns(pre, Last.recv)
        /\ toArray(w, Last.ret) =
              SpliceOut(toArray(pre, Last.recv),
                        (1..length(pre, Last.recv)) \ Last.arg[2])

(***************************************************************************)
(* Dropping missing values on its own: one call of dropNA() on a table     *)
(* whose rows hold 1, 0, '' or null under a and b, or have only one of     *)
(* the two keys.                                                           *)
(***************************************************************************)
NAValues == {Num(1), Num(0), Str(""), Null}

NARows ==
    {<<Cell("a", x), Cell("b", y)>> : x \in NAValues, y \in NAValues}
    \cup {<<Cell("a", x)>> : x \in NAValues}
    \cup {<<Cell("b", y)>> : y \in NAValues}

InitNA ==
    /\ \E t \in SeqsUpTo(NARows, MaxRows) : w = Built(t, <<>>)
    /\ pre = w
    /\ hist = <<>>
    /\ budget = 1

DropNA ==
    /\ CanCall
    /\ \E d \in Receivers, inPlace \in InPlace, axis \in {"rows", "columns"} :
          \E keep \in {DefaultKeep, WiderKeep} :
              Call("dropNA", d, inPlace, <<axis, keep>>, dropNA(w, d, axis, keep, inPlace))

NextNA == DropNA

SpecNA == InitNA /\ [][NextNA]_vars

\* C12: dropNA() on the rows returns the rows of the receiver that hold,
\* under every column of the receiver, a value that is truthy or in keep,
\* in their order.
C12_DropNARows ==
    (Called /\ Last.op = "dropNA" /\ Last.arg[1] = "rows") =>
        LET rows == toArray(pre, Last.recv)
            cs == columns(pre, Last.recv)
            complete == {i \in DOMAIN rows :
                            \A c \in Range(cs) : NotNA(Get(rows[i], c), Last.arg[2])}
        IN  /\ ~Last.err
            /\ toArray(w, Last.ret) = SpliceOut(rows, DOMAIN rows \ complete)

(***************************************************************************)
(* Dropping duplicates on its own: dropDuplicates() on a table whose rows  *)
(* hold 1 or 2 under a and 1 or null under b, or have no b, and then once  *)
(* more on the table or on the result.                                     *)
(***************************************************************************)
DupRows ==
    {<<Cell("a", Num(x)), Cell("b", y)>> : x \in {1, 2}, y \in {Num(1), Null}}
    \cup {<<Cell("a", Num(1))>>}

InitDup ==
    /\ \E t \in SeqsUpTo(DupRows, MaxDupRows) : w = Built(t, <<>>)
    /\ pre = w
    /\ hist = <<>>
    /\ budget = 2

NextDup == DropDuplicates

SpecDup == InitDup /\ [][NextDup]_vars

\* Rows x and y show the same values under the columns cs, a key the row
\* lacks counting as null
SameProjection(x, y, cs) ==
    \A c \in Range(cs) : JsonElement(Get(x, c)) = JsonElement(Get(y, c))

\* The columns a call of dropDuplicates compares
ComparedColumns(call) == IF call.arg = <<>> THEN columns(pre, call.recv) ELSE call.arg

\* The positions of the rows that have no earlier row with the same
\* projection
FirstOccurrences(rows, cs) ==
    {i \in DOMAIN rows : \A j \in 1..(i - 1) : ~SameProjection(rows[j], rows[i], cs)}

\* C13: dropDuplicates({columns}) keeps of every projection onto columns
\* (all columns by default) the first row that has it and no other, in the
\* order of the receiver; called again on its result it changes nothing.
C13_DropDuplicatesFirst ==
    /\ (Called /\ Last.op = "dropDuplicates" /\ ~Last.err) =>
          LET rows == toArray(pre, Last.recv)
              all == columns(pre, Last.recv)
              kept == SpliceOut(rows, DOMAIN rows \ FirstOccurrences(rows, ComparedColumns(Last)))
              result == toArray(w, Last.ret)
          IN  /\ Len(result) = Len(kept)
              /\ \A i \in DOMAIN result : SameProjection(result[i], kept[i], all)
    /\ (/\ Len(hist) = 2
        /\ hist[1].op = "dropDuplicates" /\ ~hist[1].err
        /\ Last.op = "dropDuplicates" /\ Last.recv = hist[1].ret
        /\ Last.arg = hist[1].arg) =>
           /\ ~Last.err
           /\ toArray(w, Last.ret) = toArray(pre, Last.recv)
           /\ columns(w, Last.ret) = columns(pre, Last.recv)

\* dropDuplicates() has dropped a later row with the projection of an
\* earlier one and kept two rows
C13_Witness ==
    /\ Called
    /\ Last.op = "dropDuplicates" /\ ~Last.err
    /\ length(pre, Last.recv) = 3
    /\ length(w, Last.ret) = 2

(***************************************************************************)
(* Appending on its own: one call of append() with up to MaxAppendRows     *)
(* rows, some with keys that are no columns, some lacking a column.        *)
(***************************************************************************)
AppendedRows ==
    {RowAB(2, 2),
     <<Cell("a", Num(1)), Cell("c", Num(1))>>,
     <<Cell("d", Num(2)), Cell("c", Null), Cell("b", Str("p"))>>}

InitAppend ==
    /\ \E t \in SeqsUpTo(SessionRows \cup {<<Cell("b", Num(0))>>}, MaxRows) :
          w = Built(t, <<>>)
    /\ pre = w
    /\ hist = <<>>
    /\ budget = 1

AppendMany ==
    /\ CanCall
    /\ \E d \in Receivers, rowvals \in SeqsUpTo(AppendedRows, MaxAppendRows), extend \in Flags :
          Call("append", d, "true", <<rowvals, extend>>, append(w, d, rowvals, extend, "absent"))

NextAppend == AppendMany

SpecAppend == InitAppend /\ [][NextAppend]_vars

\* C14: append(rows, {extend}) returns its receiver; the rows it had stay
\* where they were and the new ones follow in the given order.  Without
\* extend the column list stays, and a new row holds the columns and nothing
\* else: the given value, null where none was given.  With extend the new
\* keys follow the columns in first-seen order and the rows the receiver had
\* hold null under them.
C14_Append ==
    (Called /\ Last.op = "append") =>
        LET d == Last.recv
            given == Last.arg[1]
            extend == Last.arg[2] = "true"
            old == columns(pre, d)
            before == toArray(pre, d)
            after == toArray(w, d)
            keys == Distinct(Flatten([i \in DOMAIN given |-> Keys(given[i])]))
            new == SelectSeq(keys, LAMBDA key : ~Includes(old, key))
            expected == IF extend THEN old \o new ELSE old
        IN  /\ ~Last.err
            /\ Last.ret = d
            /\ columns(w, d) = expected
            /\ Len(after) = Len(before) + Len(given)
            /\ \A i \in DOMAIN before : \A c \in Range(old) :
                  Get(after[i], c) = Get(before[i], c)
            /\ \A i \in DOMAIN before : \A c \in Range(new) :
                  extend => HasKey(after[i], c) /\ Get(after[i], c) = Null
            /\ \A i \in DOMAIN given :
                  LET row == after[Len(before) + i]
                  IN  /\ Keys(row) = expected
                      /\ \A c \in Range(expected) :
                            Get(row, c) = IF Get(given[i], c) = Undef THEN Null
                                          ELSE Get(given[i], c)

\* append() with extend has been given two rows, with keys that were no
\* columns, on a table that had rows
C14_Witness ==
    /\ Called
    /\ Last.op = "append" /\ ~Last.err
    /\ Last.arg[2] = "true"
    /\ Len(Last.arg[1]) = 2
    /\ length(pre, Last.recv) = 2
    /\ Len(columns(w, Last.recv)) > Len(columns(pre, Last.recv))

(***************************************************************************)
(* Adding a column on its own: one call of addColumn() with an array of    *)
(* up to MaxColumnValues values.                                           *)
(***************************************************************************)
InitAddColumn ==
    /\ \E t \in SeqsUpTo(SessionRows, MaxRows) : w = Built(t, <<>>)
    /\ pre = w
    /\ hist = <<>>
    /\ budget = 1

AddColumn ==
    /\ CanCall
    /\ \E d \in Receivers, name \in {"a", "c"}, inPlace \in InPlace, extend \in {"absent", "true"} :
          \E data \in SeqsUpTo({Num(1), Num(2)}, MaxColumnValues) :
              Call("addColumn", d, inPlace, <<name, data, extend>>,
                   addColumn(w, d, name, data, extend, inPlace))

NextAddColumn == AddColumn

SpecAddColumn == InitAddColumn /\ [][NextAddColumn]_vars

\* C15: addColumn(name, values, {extend: true}) with more values than rows
\* keeps the rows, each with its value under name, and adds a row for every
\* further value, holding that value under name and null under every
\* column the table had; with and without inPlace.
C15_AddColumnExtends ==
    (/\ Called
     /\ Last.op = "addColumn"
     /\ Last.arg[3] = "true"
     /\ ~Includes(columns(pre, Last.recv), Last.arg[1])
     /\ Len(Last.arg[2]) > length(pre, Last.recv)) =>
        LET name == Last.arg[1]
            values == Last.arg[2]
            old == columns(pre, Last.recv)
            before == toArray(pre, Last.recv)
            after == toArray(w, Last.ret)
        IN  /\ ~Last.err
            /\ Len(after) = Len(values)
            /\ \A i \in DOMAIN after : Get(after[i], name) = values[i]
            /\ \A i \in DOMAIN before : \A c \in Range(old) :
                  Get(after[i], c) = Get(before[i], c)
            /\ \A i \in DOMAIN after : \A c \in Range(old) :
                  i > Len(before) => HasKey(after[i], c) /\ Get(after[i], c) = Null

(***************************************************************************)
(* Pivoting on its own: a table with columns s, a and v is pivoted, and    *)
(* an aggregate of the PivotTable is computed.                             *)
(***************************************************************************)
G == 1

PivotRows ==
    {<<Cell("s", x), Cell("a", Num(y)), Cell("v", z)>> :
        x \in {Str("p"), Bool(TRUE)}, y \in {1, 2}, z \in {Num(1), Num(2), Str("x")}}

InitPivot ==
    /\ \E t \in SeqsUpTo(PivotRows, MaxPivotRows) : w = Built(t, <<>>)
    /\ pre = w
    /\ hist = <<>>
    /\ budget = 2

Pivot ==
    /\ CanCall
    /\ w.pts = <<>>
    /\ \E pivots \in {<<"s">>, <<"a">>, <<"s", "a">>, <<"z">>} :
          Call("pivot", T, "absent", pivots, pivot(w, T, pivots))

Count ==
    /\ CanCall
    /\ w.pts # <<>>
    /\ Call("count", G, "absent", <<>>, PivotTable_count(w, G))

Aggregate ==
    /\ CanCall
    /\ w.pts # <<>>
    /\ \E aggregate \in Aggregates, column \in {"v", "a", "b"} :
          Call(aggregate, G, "absent", <<column>>, PivotTable_aggregate(w, G, aggregate, column))

NextPivot ==
    \/ Pivot
    \/ Count
    \/ Aggregate

SpecPivot == InitPivot /\ [][NextPivot]_vars

\* The values row holds under the pivots
Combination(row, pivots) == [i \in DOMAIN pivots |-> Get(row, pivots[i])]

\* What the callback of count() or sum(column) returns for rows
Callback(call, rows) ==
    IF call.op = "count" THEN Num(Len(rows))
    ELSE d3sum(Numbers([i \in DOMAIN rows |-> Get(rows[i], call.arg[1])]))

\* C16: the rollup of a PivotTable (count() and sum(column) here) returns
\* one row for every combination of values the rows of the source hold
\* under the pivots; the row holds these values under the pivots and,
\* under the name of the rollup, what the callback returns for the rows of
\* the source with that combination.
C16_RollupOneRowPerGroup ==
    (Called /\ Last.op \in {"count", "sum"} /\ ~Last.err) =>
        LET pivots == w.pts[G].pivots
            source == toArray(w, T)
            name == IF Last.op = "count" THEN "count"
                    ELSE AggregateName("sum", Last.arg[1])
            result == toArray(w, Last.ret)
            combinations == {Combination(source[i], pivots) : i \in DOMAIN source}
            group(c) == SelectSeq(source, LAMBDA row : Combination(row, pivots) = c)
        IN  /\ Len(result) = Cardinality(combinations)
            /\ \A c \in combinations :
                  \E k \in DOMAIN result :
                      /\ Combination(result[k], pivots) = c
                      /\ Get(result[k], name) = Callback(Last, group(c))

\* C17: sum, min, max, mean, median and std of a PivotTable over a column
\* do for every leaf what the method of that name of the Series of the
\* column of the leaf does: they return its value when it returns one and
\* throw when it throws; they throw for a pivot and for an unknown column.
C17_AggregatesLikeSeries ==
    (Called /\ Last.op \in Aggregates) =>
        LET pt == w.pts[G]
            column == Last.arg[1]
            ofLeaf(i) == Series_aggregate(Last.op, w.dfs[pt.tree[i].leaf].props[column])
        IN  IF Includes(pt.pivots, column) \/ ~Includes(columns(w, pt.df), column)
            THEN Last.err
            ELSE IF \E i \in DOMAIN pt.tree : ofLeaf(i).err
            THEN Last.err
            ELSE /\ ~Last.err
                 /\ Len(toArray(w, Last.ret)) = Len(pt.tree)
                 /\ \A i \in DOMAIN pt.tree :
                       Get(toArray(w, Last.ret)[i], AggregateName(Last.op, column))
                           = ofLeaf(i).val

(***************************************************************************)
(* A PivotTable next to its source: a table with columns a and b is        *)
(* pivoted, and the calls that follow the construction of the PivotTable   *)
(* change the table or compute aggregates of the PivotTable.               *)
(***************************************************************************)
InitSnapshot ==
    /\ \E t \in SeqsUpTo(SessionRows, MaxRows) : t # <<>> /\ w = Built(t, <<>>)
    /\ pre = w
    /\ hist = <<>>
    /\ budget = MaxSnapshotSteps

Insert ==
    /\ CanCall
    /\ \E d \in Receivers, row \in AppendRows, index \in 0..MaxRows :
          \E extend \in {"absent", "true"} :
              Call("insert", d, "true", <<row, index, extend>>,
                   insert(w, d, <<row>>, index, extend))

Replace ==
    /\ CanCall
    /\ \E d \in Receivers, inPlace \in InPlace, given \in BOOLEAN :
          Call("replace", d, inPlace, <<Num(1), Num(2), given>>,
               replace(w, d, Num(1), Num(2), given, <<"b">>, inPlace))

\* The calls that follow the construction of the PivotTable
NextSnapshot ==
    \/ Pivot
    \/ Count
    \/ Aggregate
    \/ w.pts # <<>> /\ Set
    \/ w.pts # <<>> /\ Append_
    \/ w.pts # <<>> /\ Insert
    \/ w.pts # <<>> /\ FilterRows
    \/ w.pts # <<>> /\ Sort
    \/ w.pts # <<>> /\ Replace
    \/ w.pts # <<>> /\ DropDuplicates

SpecSnapshot == InitSnapshot /\ [][NextSnapshot]_vars

\* What a call that returns a DataFrame gives: the rows and the columns of
\* the DataFrame, or the error
Outcome(r) ==
    IF r.err THEN [err |-> TRUE, rows |-> <<>>, columns |-> <<>>]
    ELSE [err |-> FALSE, rows |-> toArray(r.h, r.ret), columns |-> columns(r.h, r.ret)]

\* What PivotTable g gives in heap h: count(), every aggregate of the
\* columns a and b, and for rollup(fn) the keys and the rows of every leaf,
\* which are all fn is handed
Observed(h, g) ==
    [count |-> Outcome(PivotTable_count(h, g)),
     aggregates |-> [x \in Aggregates \X {"a", "b"} |->
                        Outcome(PivotTable_aggregate(h, g, x[1], x[2]))],
     leaves |-> [i \in DOMAIN h.pts[g].tree |->
                    [path |-> h.pts[g].tree[i].path, rows |-> LeafRows(h, g, i)]],
     pivots |-> h.pts[g].pivots]

\* C18: a PivotTable is a snapshot of its source.  Constructing it leaves
\* the rows and the columns of the source as they were; no later call (set,
\* append, insert, filter, sort, replace, dropDuplicates on the source, in
\* place or not, or an aggregate of the PivotTable) changes what count(),
\* the aggregates and rollup(fn) give; and the DataFrame an aggregate has
\* just returned is equal to the one the same call returns next.
C18_PivotTableIsSnapshot ==
    Called =>
        /\ Last.op = "pivot" => SameTable(pre, w, T)
        /\ pre.pts # <<>> => Observed(w, G) = Observed(pre, G)
        /\ (Last.op = "count" /\ ~Last.err) =>
               Outcome(PivotTable_count(w, G)) = Outcome(Result(w, Last.ret, FALSE))
        /\ (Last.op \in Aggregates /\ ~Last.err) =>
               Outcome(PivotTable_aggregate(w, G, Last.op, Last.arg[1]))
                   = Outcome(Result(w, Last.ret, FALSE))

\* A call has changed the rows of the source of a PivotTable with two
\* leaves, after an earlier call had changed them too
C18_Witness ==
    /\ Len(hist) = 3
    /\ hist[1].op = "pivot" /\ ~hist[1].err
    /\ hist[2].op \in {"set", "append", "insert", "filter", "sort", "replace", "dropDuplicates"}
    /\ Last.op \in {"set", "append", "insert", "filter", "sort", "replace", "dropDuplicates"}
    /\ Last.recv = T
    /\ toArray(w, T) # toArray(pre, T)
    /\ Len(w.pts[G].tree) = 2

(***************************************************************************)
(* A Series on its own: a Series is constructed from an array of values,   *)
(* and one of its methods is called.                                       *)
(***************************************************************************)
S == 1

SeriesValues == {Num(0), Num(1), Num(2), Str("2"), Str("x"), Str(""), Null, Bool(TRUE)}

InitSeries ==
    /\ \E data \in SeqsUpTo(SeriesValues, MaxSeriesLen) :
          w = Series_constructor(EmptyHeap, data).h
    /\ pre = w
    /\ hist = <<>>
    /\ budget = 1

\* A call of method op on Series s that returns the value val or throws
Returns(op, s, arg, h, val, err) ==
    /\ w' = h
    /\ pre' = w
    /\ hist' = Append(hist, [op |-> op, recv |-> s, inPlace |-> "absent", arg |-> arg,
                             ret |-> 0, err |-> err, val |-> val])
    /\ UNCHANGED budget

SeriesAggregate ==
    /\ CanCall
    /\ \E aggregate \in Aggregates :
          LET r == Series_aggregate(aggregate, Series_toArray(w, S))
          IN  Returns(aggregate, S, <<>>, w, r.val, r.err)

SeriesExtent ==
    /\ CanCall
    /\ LET r == Series_extent(Series_toArray(w, S))
       IN  Returns("extent", S, <<>>, w, r.val, r.err)

\* The second arguments of the calls of reduce()
Initials == {Num(0), Str(""), Bool(FALSE), Null, Num(1), Str("p")}

SeriesReduce ==
    /\ CanCall
    /\ \E given \in BOOLEAN, initial \in Initials :
          /\ ~given => initial = Null
          /\ LET r == Series_reduce(Series_toArray(w, S), given, initial)
             IN  Returns("reduce", S, <<given, initial>>, w, r.val, r.err)

NextSeries ==
    \/ SeriesAggregate
    \/ SeriesExtent
    \/ SeriesReduce

SpecSeries == InitSeries /\ [][NextSeries]_vars

\* a is the k-th smallest of the numbers xs
Kth(xs, k, a) ==
    /\ \E i \in DOMAIN xs : xs[i] = a
    /\ Cardinality({i \in DOMAIN xs : xs[i] < a}) < k
    /\ k <= Cardinality({i \in DOMAIN xs : xs[i] <= a})

\* v is the minimum, the maximum of the numbers xs; undefined when there is
\* none
IsMin(xs, v) ==
    IF xs = <<>> THEN v = Undef
    ELSE v.t = "num" /\ v.d = 1 /\ v.s = "" /\ Kth(xs, 1, v.n)

IsMax(xs, v) ==
    IF xs = <<>> THEN v = Undef
    ELSE v.t = "num" /\ v.d = 1 /\ v.s = "" /\ Kth(xs, Len(xs), v.n)

\* v, the fraction v.n / v.d, is the aggregate of the numbers xs
IsAggregate(aggregate, xs, v) ==
    LET n == Len(xs)
        total == SumOf(xs)
        squares == SumOf([i \in DOMAIN xs |-> (n * xs[i] - total) * (n * xs[i] - total)])
    IN  CASE aggregate = "sum" -> v = Num(total)
          [] aggregate = "min" -> IsMin(xs, v)
          [] aggregate = "max" -> IsMax(xs, v)
          [] aggregate = "mean" ->
                IF n = 0 THEN v = Undef
                ELSE v.t = "num" /\ v.s = "" /\ v.d > 0 /\ v.n * n = total * v.d
          [] aggregate = "median" ->
                IF n = 0 THEN v = Undef
                ELSE /\ v.t = "num" /\ v.s = "" /\ v.d > 0
                     /\ \E i, j \in DOMAIN xs :
                           /\ Kth(xs, (n + 1) \div 2, xs[i])
                           /\ Kth(xs, (n + 2) \div 2, xs[j])
                           /\ 2 * v.n = (xs[i] + xs[j]) * v.d
          [] aggregate = "std" ->
                \* the square of v is the sum of the squared distances to the
                \* mean over n - 1
                IF n < 2 THEN v = Undef
                ELSE /\ v.t = "num" /\ v.d > 0 /\ v.n >= 0
                     /\ IF v.s = "sqrt"
                        THEN v.n * n * n * (n - 1) = squares * v.d
                        ELSE v.n * v.n * n * n * (n - 1) = squares * v.d * v.d

\* C19: sum, min, max, extent, mean, median and std of a Series throw
\* exactly when some value of the Series is not a number once converted
\* (+value is NaN), and leave the values of the Series as they were;
\* otherwise they return the aggregate of the converted values (extent:
\* the minimum and the maximum).
C19_SeriesAggregates ==
    (Called /\ Last.op \in Aggregates \cup {"extent"}) =>
        LET data == Series_toArray(pre, S)
            xs == [i \in DOMAIN data |-> ToNumber(data[i])]
        IN  /\ Last.err <=> \E i \in DOMAIN data : ~CoercesToNumber(data[i])
            /\ Series_toArray(w, S) = data
            /\ ~Last.err =>
                  IF Last.op = "extent"
                  THEN Len(Last.val) = 2 /\ IsMin(xs, Last.val[1]) /\ IsMax(xs, Last.val[2])
                  ELSE IsAggregate(Last.op, xs, Last.val)

\* std() has returned the deviation of the values of a Series of the
\* greatest length, one of them not a number before conversion
C19_Witness ==
    /\ Called
    /\ Last.op = "std"
    /\ ~Last.err
    /\ Len(Series_toArray(pre, S)) = MaxSeriesLen
    /\ \E i \in DOMAIN Series_toArray(pre, S) : Series_toArray(pre, S)[i].t # "num"
    /\ Last.val.t = "num"

\* fn(...fn(fn(acc, v0), v1)..., vn-1) for the values v0 .. vn-1 of data
RECURSIVE LeftFold(_, _)
LeftFold(data, acc) ==
    IF data = <<>> THEN acc ELSE LeftFold(Tail(data), fn(acc, Head(data)))

\* C20: reduce(fn, initial) returns the left fold of the values from
\* initial whenever an initial value is given, be it 0, '', false or null,
\* and so initial itself for a Series without values; with no initial value
\* it returns the fold of the values after the first from the first, and
\* throws for a Series without values.
C20_ReduceIsLeftFold ==
    (Called /\ Last.op = "reduce") =>
        LET data == Series_toArray(pre, S)
            given == Last.arg[1]
            initial == Last.arg[2]
        IN  IF given THEN ~Last.err /\ Last.val = LeftFold(data, initial)
            ELSE IF data = <<>> THEN Last.err
            ELSE ~Last.err /\ Last.val = LeftFold(Tail(data), Head(data))

(***************************************************************************)
(* head and tail: a DataFrame T and a Series S, and one call of head(n) or *)
(* tail(n) on either.                                                      *)
(***************************************************************************)
InitSlice ==
    /\ \E t \in SeqsUpTo(SessionRows, MaxRows), data \in SeqsUpTo(SeriesValues, MaxSliceLen) :
          w = Series_constructor(constructorFromArray(EmptyHeap, t).h, data).h
    /\ pre = w
    /\ hist = <<>>
    /\ budget = 1

DataFrameHead ==
    /\ CanCall
    /\ \E n \in 0..MaxSliceN : Call("head", T, "absent", <<n>>, head(w, T, n))

DataFrameTail ==
    /\ CanCall
    /\ \E n \in 0..MaxSliceN : Call("tail", T, "absent", <<n>>, tail(w, T, n))

SeriesHead ==
    /\ CanCall
    /\ \E n \in 0..MaxSliceN :
          LET r == Series_head(w, S, n)
          IN  Returns("Series.head", S, <<n>>, r.h, r.ret, r.err)

SeriesTail ==
    /\ CanCall
    /\ \E n \in 0..MaxSliceN :
          LET r == Series_tail(w, S, n)
          IN  Returns("Series.tail", S, <<n>>, r.h, r.ret, r.err)

NextSlice ==
    \/ DataFrameHead
    \/ DataFrameTail
    \/ SeriesHead
    \/ SeriesTail

SpecSlice == InitSlice /\ [][NextSlice]_vars

\* The first k, the last k elements of xs, k the smaller of n and the length
FirstOf(xs, n) == SubSeq(xs, 1, IF n < Len(xs) THEN n ELSE Len(xs))
LastOf(xs, n) == SubSeq(xs, Len(xs) - (IF n < Len(xs) THEN n ELSE Len(xs)) + 1, Len(xs))

\* The elements of the receiver before the last call, and of what the call
\* returned
Sliced == IF Last.op \in {"head", "tail"} THEN toArray(pre, T) ELSE Series_toArray(pre, S)
SliceReturned ==
    IF Last.op \in {"head", "tail"} THEN toArray(w, Last.ret) ELSE Series_toArray(w, Last.val)

\* C21: for every n >= 0, tail(n) on a Series or a DataFrame of length L
\* returns the last min(n, L) elements in their order, so none for n = 0,
\* and head(n) returns the first min(n, L).
C21_HeadAndTail ==
    Called =>
        /\ ~Last.err
        /\ Last.op \in {"head", "Series.head"} => SliceReturned = FirstOf(Sliced, Last.arg[1])
        /\ Last.op \in {"tail", "Series.tail"} => SliceReturned = LastOf(Sliced, Last.arg[1])

\* The same for every call but tail(0)
C21_HeadAndTailButTailOfNone ==
    (Called /\ ~(Last.op \in {"tail", "Series.tail"} /\ Last.arg[1] = 0)) => C21_HeadAndTail

(***************************************************************************)
(* Construction: an array of records A that the program holds, the         *)
(* DataFrame T built from it, and later writes to the array.               *)
(***************************************************************************)
A == 1

\* The values of the records: strings, numbers, booleans and null
RecordValues ==
    {Num(0), Num(1), Str("1"), Str("0"), Str("x"), Str(""), Str(" "), Bool(TRUE), Null}

\* { a }, { a, b: 1 }, { b: 1, a } and {}
Records ==
    {<<Cell("a", v)>> : v \in RecordValues}
    \cup {<<Cell("a", v), Cell("b", Num(1))>> : v \in {Num(1), Str("1"), Str("x")}}
    \cup {<<Cell("b", Str("2")), Cell("a", Null)>>, <<>>}

InitConstruct ==
    /\ \E rowvals \in SeqsUpTo(Records, MaxConstructRows) :
          w = AllocArr(AllocRows(EmptyHeap, rowvals), FreshRowIds(EmptyHeap, Len(rowvals)))
    /\ pre = w
    /\ hist = <<>>
    /\ budget = MaxConstructSteps

\* The records of the array A
Given(h) == [i \in DOMAIN h.arrs[A] |-> h.rows[h.arrs[A][i]]]

\* new DataFrame(A)
Construct ==
    /\ hist = <<>>
    /\ Call("new DataFrame", 0, "absent", <<Given(w)>>, constructorFromArray(w, Given(w)))

\* A[i][key] = value
WriteRecord ==
    /\ CanCall /\ hist # <<>>
    /\ \E i \in DOMAIN w.arrs[A], key \in {"a", "c"} :
          Call("write", 0, "absent", <<i, key>>,
               Result([w EXCEPT !.rows[w.arrs[A][i]] = Put(@, key, Num(2))], 0, FALSE))

\* A.push(record)
PushRecord ==
    /\ CanCall /\ hist # <<>>
    /\ \E record \in {<<Cell("a", Num(2))>>} :
          LET h1 == AllocRows(w, <<record>>)
          IN  Call("push", 0, "absent", <<record>>,
                   Result([h1 EXCEPT !.arrs[A] = Append(@, Len(h1.rows))], 0, FALSE))

\* A.pop()
PopRecord ==
    /\ CanCall /\ hist # <<>> /\ w.arrs[A] # <<>>
    /\ Call("pop", 0, "absent", <<>>,
            Result([w EXCEPT !.arrs[A] = SubSeq(@, 1, Len(@) - 1)], 0, FALSE))

NextConstruct ==
    \/ Construct
    \/ WriteRecord
    \/ PushRecord
    \/ PopRecord

SpecConstruct == InitConstruct /\ [][NextConstruct]_vars

\* What a field becomes: the number, for a string that reads as a number
AsNumberWhereNumeric(v) ==
    IF v.t = "str" /\ v.s \in NumericStrings THEN Num(StringToNumber(v.s)) ELSE v

\* Record by record and field by field, rows are the records given, numeric
\* strings turned into numbers
RoundTrip(given, rowvals) ==
    /\ Len(rowvals) = Len(given)
    /\ \A i \in DOMAIN given :
          rowvals[i] = [j \in DOMAIN given[i] |->
                           [k |-> given[i][j].k, v |-> AsNumberWhereNumeric(given[i][j].v)]]

\* C22: for an array of flat records of strings, numbers, booleans and
\* null, new DataFrame(rows).toArray() has the records in their order, each
\* field as given but for the strings that read as numbers, which are that
\* number; columns is the union of the keys in first-seen order; a later
\* change of the array given leaves the DataFrame as it was.
C22_ConstructionRoundTrip ==
    Called =>
        IF Last.op = "new DataFrame"
        THEN /\ ~Last.err
             /\ RoundTrip(Given(pre), toArray(w, Last.ret))
             /\ columns(w, Last.ret) =
                   Distinct(Flatten([i \in DOMAIN Given(pre) |-> Keys(Given(pre)[i])]))
        ELSE /\ toArray(w, T) = toArray(pre, T)
             /\ columns(w, T) = columns(pre, T)
             /\ w.dfs[T].props = pre.dfs[T].props

\* The same for records without a string of white space
C22_RoundTripButWhiteSpace ==
    (Called /\ \A i \in DOMAIN hist[1].arg[1] :
                  \A j \in DOMAIN hist[1].arg[1][i] : hist[1].arg[1][i][j].v # Str(" "))
        => C22_ConstructionRoundTrip

(***************************************************************************)
(* Series built and changed: the program holds an array of values (the     *)
(* array vals[A]), builds the Series S from it, and then calls methods on  *)
(* S and on the Series those calls return, or writes to its array.         *)
(***************************************************************************)
SeriesOpValues == {Num(0), Num(1), Null}

InitSeriesOps ==
    /\ \E data \in SeqsUpTo(SeriesOpValues, MaxSeriesOpLen) :
          w = Series_constructor([EmptyHeap EXCEPT !.vals = <<data>>], data).h
    /\ pre = w
    /\ hist = <<>>
    /\ budget = MaxSeriesOpSteps

\* The Series the program calls methods on
SeriesReceivers == DOMAIN w.srs

\* The values handed to append() and insert()
NewValues == {<<Num(2)>>, <<Num(2), Null>>}

SeriesNew ==
    /\ CanCall
    /\ \E s \in SeriesReceivers :
          Call("new Series", s, "absent", <<>>, Series_constructorFromSeries(w, s))

SeriesClone ==
    /\ CanCall
    /\ \E s \in SeriesReceivers : Call("clone", s, "absent", <<>>, Series_clone(w, s))

SeriesAppend ==
    /\ CanCall
    /\ \E s \in SeriesReceivers, data \in NewValues :
          Call("append", s, "absent", <<data>>, Series_append(w, s, data))

\* insert(values, index) and, with given FALSE, insert(values)
SeriesInsert ==
    /\ CanCall
    /\ \E s \in SeriesReceivers, data \in NewValues, given \in BOOLEAN,
          index \in (0 - 1)..(MaxSeriesOpLen + 1) :
          /\ ~given => index = 0
          /\ Call("insert", s, "absent", <<data, index, given>>, Series_insert(w, s, data, index))

SeriesConcat ==
    /\ CanCall
    /\ \E s \in SeriesReceivers, other \in SeriesReceivers, inPlace \in Flags :
          Call("concat", s, inPlace, <<other>>, Series_concat(w, s, other, inPlace))

SeriesFilter ==
    /\ CanCall
    /\ \E s \in SeriesReceivers, inPlace \in Flags :
          \E keep \in SUBSET DOMAIN Series_toArray(w, s) :
              Call("filter", s, inPlace, <<keep>>, Series_filter(w, s, keep, inPlace))

SeriesDrop ==
    /\ CanCall
    /\ \E s \in SeriesReceivers, inPlace \in Flags :
          \E dropped \in SUBSET DOMAIN Series_toArray(w, s) :
              Call("drop", s, inPlace, <<dropped>>, Series_drop(w, s, dropped, inPlace))

SeriesDropNA ==
    /\ CanCall
    /\ \E s \in SeriesReceivers, inPlace \in Flags, keep \in {DefaultKeep, WiderKeep} :
          Call("dropNA", s, inPlace, <<keep>>, Series_dropNA(w, s, keep, inPlace))

SeriesDropDuplicates ==
    /\ CanCall
    /\ \E s \in SeriesReceivers, inPlace \in Flags :
          Call("dropDuplicates", s, inPlace, <<>>, Series_dropDuplicates(w, s, inPlace))

SeriesSort ==
    /\ CanCall
    /\ \E s \in SeriesReceivers, inPlace \in Flags, reverse \in {"absent", "true"} :
          /\ ~AnyNaN(Series_toArray(w, s))
          /\ Call("sort", s, inPlace, <<reverse>>, Series_sort(w, s, reverse, inPlace))

SeriesShuffle ==
    /\ CanCall
    /\ \E s \in SeriesReceivers, inPlace \in Flags :
          \E order \in Orders(Len(Series_toArray(w, s))) :
              Call("shuffle", s, inPlace, <<order>>, Series_shuffle(w, s, inPlace, order))

SeriesRound ==
    /\ CanCall
    /\ \E s \in SeriesReceivers, inPlace \in Flags, digits \in {0, 1} :
          Call("round", s, inPlace, <<digits>>, Series_round(w, s, digits, inPlace))

\* A.push(value) and A.reverse() on the array S was built from
WriteArray ==
    /\ CanCall
    /\ \E written \in {Append(w.vals[A], Num(2)), Reverse(w.vals[A])} :
          Call("write", 0, "absent", <<>>, Result([w EXCEPT !.vals[A] = written], 0, FALSE))

NextSeriesOps ==
    \/ SeriesNew
    \/ SeriesClone
    \/ SeriesAppend
    \/ SeriesInsert
    \/ SeriesConcat
    \/ SeriesFilter
    \/ SeriesDrop
    \/ SeriesDropNA
    \/ SeriesDropDuplicates
    \/ SeriesSort
    \/ SeriesShuffle
    \/ SeriesRound
    \/ WriteArray

SpecSeriesOps == InitSeriesOps /\ [][NextSeriesOps]_vars

\* C23: a Series does not share its values with what it was built from: a
\* call on one Series (insert, shuffle in place, any other) leaves the
\* values of every other Series as they were, and the values of the array S
\* was built from; a write to that array leaves every Series as it was.
C23_NoAliasing ==
    Called =>
        /\ \A s \in DOMAIN pre.srs :
              s # Last.recv => Series_toArray(w, s) = Series_toArray(pre, s)
        /\ Last.op # "write" => w.vals[A] = pre.vals[A]

\* The same between the Series and the array S was built from only
C23_NoAliasingOfArray ==
    Called =>
        /\ Last.op = "write" =>
              \A s \in DOMAIN pre.srs : Series_toArray(w, s) = Series_toArray(pre, s)
        /\ Last.op # "write" => w.vals[A] = pre.vals[A]

\* The methods of Series documented to return a new Series unless inPlace
\* is set
CopyingMethods ==
    {"filter", "drop", "dropNA", "dropDuplicates", "sort", "shuffle", "round", "concat"}

\* C24: filter, drop, dropNA, dropDuplicates, sort, shuffle, round and
\* concat, called on a Series without inPlace set, return a new Series and
\* leave the values of the receiver and their order as they were.
C24_CopyByDefault ==
    (Called /\ Last.op \in CopyingMethods /\ ~IsSet(Last.inPlace) /\ ~Last.err) =>
        /\ Last.ret \notin DOMAIN pre.srs
        /\ Series_toArray(w, Last.recv) = Series_toArray(pre, Last.recv)

\* The same for the methods other than concat and shuffle
C24_CopyByDefaultButConcatAndShuffle ==
    (Called /\ Last.op \notin {"concat", "shuffle"}) => C24_CopyByDefault

\* C25: a method called with inPlace: true returns the receiver itself, and
\* the receiver then holds the result: after dropNA no value of the
\* receiver is missing, after filter it holds the values accepted, after
\* dropDuplicates every value once, after concat the values of both Series.
C25_InPlaceResult ==
    (Called /\ Last.inPlace = "true" /\ ~Last.err) =>
        /\ Last.ret = Last.recv
        /\ Last.op = "dropNA" =>
              \A i \in DOMAIN Series_toArray(w, Last.recv) :
                  NotNA(Series_toArray(w, Last.recv)[i], Last.arg[1])
        /\ Last.op = "filter" =>
              Series_toArray(w, Last.recv)
                  = SpliceOut(Series_toArray(pre, Last.recv),
                              DOMAIN Series_toArray(pre, Last.recv) \ Last.arg[1])
        /\ Last.op = "dropDuplicates" =>
              Series_toArray(w, Last.recv) = Distinct(Series_toArray(pre, Last.recv))
        /\ Last.op = "concat" =>
              Series_toArray(w, Last.recv)
                  = Series_toArray(pre, Last.recv) \o Series_toArray(pre, Last.arg[1])

\* The same for the methods other than dropNA
C25_InPlaceResultButDropNA ==
    (Called /\ Last.op # "dropNA") => C25_InPlaceResult

\* join() called with inPlace: true returns the receiver itself
C25_JoinReturnsReceiver ==
    (Called /\ Last.op = "join" /\ Last.inPlace = "true" /\ ~Last.err) => Last.ret = Last.recv

\* The Series DataFrame d holds under each of its columns has as many values
\* as d has rows, the i-th being what row i holds under the column (null
\* where it holds nothing)
ViewsConsistent(h, d) ==
    \A c \in Range(columns(h, d)) :
        /\ c \in DOMAIN h.dfs[d].props
        /\ Len(h.dfs[d].props[c]) = length(h, d)
        /\ \A i \in 1..length(h, d) :
              h.dfs[d].props[c][i] = JsonElement(Get(toArray(h, d)[i], c))

\* C26: after any sequence of calls that returned, on T and on the
\* DataFrames derived from it, with inPlace or without, every DataFrame has
\* under each of its columns a Series of its length whose i-th value is row
\* i's value under the column.
C26_ViewsConsistent ==
    (\A i \in DOMAIN hist : ~hist[i].err) => \A d \in DOMAIN w.dfs : ViewsConsistent(w, d)

\* Every row of DataFrame d has the columns of d as its keys, no other key,
\* and holds a value under each (null for want of one)
RowShape(h, d) ==
    \A i \in 1..length(h, d) :
        /\ Range(Keys(toArray(h, d)[i])) = Range(columns(h, d))
        /\ \A c \in Range(columns(h, d)) : Get(toArray(h, d)[i], c) # Undef

\* C27: after append, insert, and filter, replace, sort, rename, addColumn,
\* dropDuplicates or join (with any how) called in place, every row of the
\* receiver has exactly the receiver's columns as keys, and holds null
\* under a column it had no value for.
C27_RowShape ==
    (/\ Called
     /\ ~Last.err
     /\ \/ Last.op \in {"append", "insert"}
        \/ /\ Last.inPlace = "true"
           /\ Last.op \in {"filter", "replace", "sort", "rename", "addColumn",
                            "dropDuplicates", "join"})
        => RowShape(w, Last.recv)

(***************************************************************************)
(* Arguments that are refused: one call on T whose index, column names or  *)
(* options may be what the method does not accept.                         *)
(***************************************************************************)
\* -1 to 3, '0' and 1/2
IndexValues ==
    {Num(i) : i \in (0 - 1)..(MaxRows + 1)} \cup {Str("0"), [t |-> "num", n |-> 1, d |-> 2, s |-> ""]}

\* Lists of names: columns, names that are no column, a name twice
NameLists == {<<"a">>, <<"c">>, <<"a", "c">>, <<"b", "a">>, <<"a", "a">>}

\* What a call was handed: its index, its names, and whether its options
\* hold a key the method does not expect
Handed(index, names, unknown) == [index |-> index, names |-> names, unknown |-> unknown]

InitValidation ==
    /\ \E t \in SeqsUpTo(SessionRows, MaxRows), o \in SeqsUpTo(OtherRows, MaxOtherRows) :
          o # <<>> /\ w = Built(t, o)
    /\ pre = w
    /\ hist = <<>>
    /\ budget = 1

GetAt ==
    /\ CanCall
    /\ \E v \in IndexValues :
          Call("get", T, "absent", Handed(v, <<>>, FALSE),
               Validator_integer(w, v, get(w, T, v.n)))

SetAt ==
    /\ CanCall
    /\ \E v \in IndexValues, column \in {"b", "c"} :
          Call("set", T, "absent", Handed(v, <<column>>, FALSE),
               Validator_integer(w, v, set(w, T, v.n, column, Num(2))))

InsertAt ==
    /\ CanCall
    /\ \E v \in IndexValues, row \in AppendRows, unknown \in BOOLEAN :
          Call("insert", T, "absent", Handed(v, <<>>, unknown),
               Validator_integer(w, v,
                   Validator_options(w, unknown, insert(w, T, <<row>>, v.n, "absent"))))

ReplaceIn ==
    /\ CanCall
    /\ \E names \in NameLists, inPlace \in InPlace, unknown \in BOOLEAN :
          Call("replace", T, inPlace, Handed(Undef, names, unknown),
               Validator_options(w, unknown, replace(w, T, Num(1), Num(2), TRUE, names, inPlace)))

SortBy ==
    /\ CanCall
    /\ \E names \in NameLists, inPlace \in InPlace, unknown \in BOOLEAN :
          Call("sort", T, inPlace, Handed(Undef, names, unknown),
               Validator_options(w, unknown, sort(w, T, names, "absent", inPlace)))

FilterNames ==
    /\ CanCall
    /\ \E names \in NameLists, inPlace \in InPlace, unknown \in BOOLEAN :
          Call("filter", T, inPlace, Handed(Undef, names, unknown),
               Validator_options(w, unknown, filterColumns(w, T, Range(names), inPlace)))

DropDuplicatesBy ==
    /\ CanCall
    /\ \E names \in NameLists, inPlace \in InPlace, unknown \in BOOLEAN :
          Call("dropDuplicates", T, inPlace, Handed(Undef, names, unknown),
               Validator_options(w, unknown, dropDuplicates(w, T, names, inPlace)))

PivotBy ==
    /\ CanCall
    /\ \E names \in NameLists :
          Call("pivot", T, "absent", Handed(Undef, names, FALSE), pivot(w, T, names))

JoinOn ==
    /\ CanCall
    /\ \E column \in {"a", "b", "c", "z"}, inPlace \in InPlace, unknown \in BOOLEAN :
          Call("join", T, inPlace, Handed(Undef, <<column>>, unknown),
               Validator_options(w, unknown, join(w, T, O, column, "left", inPlace)))

AddColumnNamed ==
    /\ CanCall
    /\ \E name \in {"a", "b", "c"}, inPlace \in InPlace, unknown \in BOOLEAN :
          Call("addColumn", T, inPlace, Handed(Undef, <<name>>, unknown),
               Validator_options(w, unknown, addColumn(w, T, name, <<Num(1)>>, "absent", inPlace)))

ReorderAs ==
    /\ CanCall
    /\ \E names \in NameLists, inPlace \in InPlace, unknown \in BOOLEAN :
          Call("reorder", T, inPlace, Handed(Undef, names, unknown),
               Validator_options(w, unknown, reorder(w, T, names, inPlace)))

NextValidation ==
    \/ GetAt
    \/ SetAt
    \/ InsertAt
    \/ ReplaceIn
    \/ SortBy
    \/ FilterNames
    \/ DropDuplicatesBy
    \/ PivotBy
    \/ JoinOn
    \/ AddColumnNamed
    \/ ReorderAs

SpecValidation == InitValidation /\ [][NextValidation]_vars

\* The call was handed what the method is to refuse: an index that is no
\* integer of 0 .. length - 1, a name that is no column (for join, no column
\* of both DataFrames), for addColumn a name that is a column, for reorder a
\* list that is no permutation of the columns, or an unknown option
Refused(call, h) ==
    \/ call.arg.unknown
    \/ /\ call.op \in {"get", "set", "insert"}
       /\ NotInteger(call.arg.index) \/ IndexOutOfRange(h, call.recv, call.arg.index.n)
    \/ /\ call.op \in {"set", "replace", "sort", "filter", "dropDuplicates", "pivot"}
       /\ \E i \in DOMAIN call.arg.names : ~Includes(columns(h, call.recv), call.arg.names[i])
    \/ /\ call.op = "join"
       /\ ~(Includes(columns(h, call.recv), call.arg.names[1])
            /\ Includes(columns(h, O), call.arg.names[1]))
    \/ /\ call.op = "addColumn"
       /\ Includes(columns(h, call.recv), call.arg.names[1])
    \/ /\ call.op = "reorder"
       /\ ~IsPermutation(call.arg.names, columns(h, call.recv))

\* C28: a call handed an index out of range or that is no integer, a name
\* that is no column, for addColumn a name that is a column, for reorder a
\* list that is no permutation of the columns, or an unknown option, throws
\* and leaves the rows, the column list and the column Series of the
\* DataFrame as they were.
C28_RefusalsAreAtomic ==
    (Called /\ Refused(Last, pre)) =>
        /\ Last.err
        /\ SameTable(w, pre, Last.recv)
        /\ w.dfs[Last.recv].props = pre.dfs[Last.recv].props

\* The same for the calls other than reorder
C28_RefusalsAreAtomicButReorder ==
    (Called /\ Last.op # "reorder") => C28_RefusalsAreAtomic

\* The rows of count() partition the rows of the source by what they hold
\* under the pivots, two values being the same when same(x, y)
GroupPartition(same(_, _)) ==
    LET pivots == w.pts[G].pivots
        source == toArray(w, T)
        result == toArray(w, Last.ret)
        alike(r1, r2) == \A c \in Range(pivots) : same(Get(r1, c), Get(r2, c))
        counted(k) == Get(result[k], "count")
    IN  /\ \A k, l \in DOMAIN result : alike(result[k], result[l]) => k = l
        /\ \A k \in DOMAIN result :
              /\ counted(k).t = "num"
              /\ counted(k).n = Cardinality({i \in DOMAIN source : alike(source[i], result[k])})
        /\ SumOf([k \in DOMAIN result |-> counted(k).n]) = Len(source)
        /\ \A i \in DOMAIN w.pts[G].tree :
              /\ Len(w.pts[G].tree[i].path) = Len(pivots)
              /\ Range(columns(w, w.pts[G].tree[i].leaf)) \cap Range(pivots) = {}
              /\ \A j \in DOMAIN toArray(w, w.pts[G].tree[i].leaf) :
                    \A c \in Range(pivots) : ~HasKey(toArray(w, w.pts[G].tree[i].leaf)[j], c)

\* C29: for a DataFrame T pivoted on one or more of its columns, the rows
\* of count() hold pairwise distinct combinations of values under the
\* pivots, each count is the number of rows of T holding that combination,
\* the counts add up to the length of T, no leaf of the tree has a pivot
\* among its columns, and the tree is as deep as there are pivots.
C29_GroupPartition ==
    (Called /\ Last.op = "count" /\ ~Last.err) => GroupPartition(LAMBDA x, y : x = y)

\* The same with two values taken for the same when they read the same as
\* strings
C29_GroupPartitionOfStrings ==
    (Called /\ Last.op = "count" /\ ~Last.err) =>
        GroupPartition(LAMBDA x, y : JsString(x) = JsString(y))

(***************************************************************************)
(* insert: a DataFrame T and a Series S, and one call of insert on either, *)
(* with or without an index.                                               *)
(***************************************************************************)
\* -1 to the length and one more, '0' and 1/2
InsertIndexValues ==
    {Num(i) : i \in (0 - 1)..(MaxInsertLen + 1)}
    \cup {Str("0"), [t |-> "num", n |-> 1, d |-> 2, s |-> ""]}

InitInsert ==
    /\ \E t \in SeqsUpTo(SessionRows, MaxInsertLen), data \in SeqsUpTo(SeriesOpValues, MaxInsertLen) :
          w = Series_constructor(constructorFromArray(EmptyHeap, t).h, data).h
    /\ pre = w
    /\ hist = <<>>
    /\ budget = 1

\* insert(rows, index, { extend }) and, with given FALSE, insert(rows)
DataFrameInsert ==
    /\ CanCall
    /\ \E rowvals \in SeqsUpTo(AppendRows, MaxAppendRows), v \in InsertIndexValues,
          given \in BOOLEAN, extend \in {"absent", "true"} :
          /\ ~given => v = Num(0) /\ extend = "absent"
          /\ Call("insert", T, "absent", <<rowvals, v, given>>,
                  Validator_integer(w, v, insert(w, T, rowvals, v.n, extend)))

\* insert(values, index) and, with given FALSE, insert(values)
SeriesInsertAt ==
    /\ CanCall
    /\ \E data \in NewValues, v \in InsertIndexValues, given \in BOOLEAN :
          /\ ~given => v = Num(0)
          /\ Call("Series.insert", S, "absent", <<data, v, given>>,
                  Validator_integer(w, v, Series_insert(w, S, data, v.n)))

NextInsert ==
    \/ DataFrameInsert
    \/ SeriesInsertAt

SpecInsert == InitInsert /\ [][NextInsert]_vars

\* The elements of the receiver of the last call in heap h
Elements(h) == IF Last.op = "insert" THEN toArray(h, T) ELSE Series_toArray(h, S)

\* The element after is the element given: the same value, and for rows the
\* same value under every column of T the row given has a value for
IsElement(after, given) ==
    IF Last.op = "insert"
    THEN \A c \in Range(columns(w, T)) \cap Range(Keys(given)) : Get(after, c) = Get(given, c)
    ELSE after = given

\* C30: insert(rows, index), on a DataFrame or a Series of length L, throws
\* unless index is an integer of 0 .. L - 1, so always when L is 0, also
\* without an index; when it returns, the k elements given are at the
\* positions index .. index + k - 1 in the order given, the elements that
\* were there keep their order around them, and the last element is the one
\* that was last.
C30_InsertWithinRange ==
    (Called /\ Last.op \in {"insert", "Series.insert"}) =>
        LET before == Elements(pre)
            after == Elements(w)
            given == Last.arg[1]
            index == Last.arg[2].n
            k == Len(Last.arg[1])
        IN  /\ Last.err <=> (NotInteger(Last.arg[2]) \/ index < 0 \/ index > Len(before) - 1)
            /\ Len(before) = 0 => Last.err
            /\ ~Last.err =>
                  /\ Len(after) = Len(before) + k
                  /\ \A j \in 1..k : IsElement(after[index + j], given[j])
                  /\ \A i \in 1..index : IsElement(after[i], before[i])
                  /\ \A i \in (index + 1)..Len(before) : IsElement(after[i + k], before[i])
                  /\ IsElement(after[Len(after)], before[Len(before)])

\* Two rows have been inserted between the two rows of T
C30_Witness ==
    /\ Called
    /\ Last.op = "insert"
    /\ ~Last.err
    /\ Len(Last.arg[1]) = 2
    /\ Last.arg[2] = Num(1)
    /\ length(pre, T) = 2
    /\ length(w, T) = 4

====
